---- MODULE Spec2Model ----
(***************************************************************************)
(* OCR orchestration and caching engine of python-OCR-date.                *)
(*                                                                         *)
(*   core/cache_manager.py              CacheManager (fingerprint cache)   *)
(*   core/optimized_paddleocr_engine.py OptimizedPaddleOCREngine           *)
(*   core/smart_image_processor.py      SmartImageProcessor                *)
(*   core/smart_roi_detector.py         SmartROIDetector                   *)
(*                                                                         *)
(* Time is counted in ticks of one day (the unit of max_cache_days).       *)
(* Confidences are counted in hundredths (0.2 is 20).  File sizes are      *)
(* counted in MB (the fast-hash threshold 10*1024*1024 is 10).             *)
(***************************************************************************)
EXTENDS Integers, Sequences, FiniteSets, TLC

VARIABLES
    now,            \* time.time(), in ticks
    files,          \* the file system: path -> file
    table,          \* rows of the ocr_cache table
    nextId,         \* AUTOINCREMENT counter of ocr_cache.id
    nops,           \* number of cache API calls made so far
    mods,           \* number of file modifications made so far
    saved,          \* path -> the last save_result on it that stored a row
    last,           \* the last cache API call and what it returned
    picture,        \* path -> the image cv2.imread decodes from the file
    pc,             \* where the engine's ocr call stands
    call,           \* the locals of the ocr call in progress
    ncalls,         \* number of ocr calls started so far
    ret,            \* what the last ocr call returned
    workers,        \* the worker threads still running
    inbox,          \* messages put on result queues and not yet taken
    tmp_alive,      \* temporary files of the current ocr call still on disk
    reader,         \* self.reader: "ok", or "none" after a failed rebuild
    process_count,  \* self._process_count
    last_cleanup    \* self._last_cleanup

cacheVars == <<table, nextId, saved>>
engineVars == <<picture, pc, call, ncalls, ret, workers, inbox, tmp_alive,
                reader, process_count, last_cleanup>>

vars == <<now, files, table, nextId, nops, mods, saved, last, picture, pc,
          call, ncalls, ret, workers, inbox, tmp_alive, reader, process_count,
          last_cleanup>>

(***************************************************************************)
(* Bounds of the model.                                                    *)
(***************************************************************************)
MaxTime == 2          \* the clock stops here
MaxOps == 3           \* cache API calls per behaviour
MaxMods == 1          \* file modifications per behaviour
MaxCacheSize == 2     \* CacheManager(max_cache_size=...), default 1000
MaxCacheDays == 1     \* CacheManager(max_cache_days=...), default 30
MaxCalls == 2         \* ocr calls per behaviour
MaxAbandoned == 1     \* timed-out workers whose late answer is followed
MaxEvictOps == 4      \* cache API calls per behaviour of EvictSpec

(***************************************************************************)
(* Program constants.                                                      *)
(***************************************************************************)
HashThreshold == 10   \* _calculate_file_hash: file_size > 10 MB -> fast hash

Paths == {"a.jpg", "b.jpg"}
Bytes == {0, 1}
FileSizes == {1, 11}

\* What a file holds: its first 8 KB, its middle, its last 8 KB, its size.
Contents == [head : Bytes, mid : Bytes, tail : {0}, size : FileSizes]

(***************************************************************************)
(* OCR result payloads.  A span is [bbox, (text, confidence)]; pair tells  *)
(* whether (text, confidence) is a Python tuple or a two-element list.     *)
(***************************************************************************)
SpanGood == [bbox |-> 1, text |-> "2025.06.24", conf |-> 90, pair |-> "tuple"]
SpanWeak == [bbox |-> 2, text |-> "LOT", conf |-> 40, pair |-> "tuple"]

AsList(s) == [s EXCEPT !.pair = "list"]

\* ser = FALSE: a payload json.dumps cannot serialise (it raises TypeError).
Payloads ==
    { [ser |-> TRUE, spans |-> <<SpanGood>>],
      [ser |-> TRUE, spans |-> <<AsList(SpanWeak)>>],
      [ser |-> FALSE, spans |-> <<SpanGood>>] }

\* json.dumps(ocr_results): the JSON text has arrays only, the tuple/list
\* distinction of the Python value is not written.
json_dumps(result) ==
    [ok |-> result.ser,
     text |-> [i \in DOMAIN result.spans |->
                 <<result.spans[i].bbox, result.spans[i].text, result.spans[i].conf>>]]

\* json.loads(text): every JSON array is read back as a Python list.
json_loads(text) ==
    [ser |-> TRUE,
     spans |-> [i \in DOMAIN text |->
                  [bbox |-> text[i][1], text |-> text[i][2],
                   conf |-> text[i][3], pair |-> "list"]]]

(***************************************************************************)
(* Fingerprint.                                                            *)
(***************************************************************************)
fast_hash(f) == <<"md5", f.data.head, f.data.tail, f.data.size>>

full_hash(f) == <<"md5", f.data.head, f.data.mid, f.data.tail>>

\* None (here <<>>) when the file cannot be read.
calculate_file_hash(f) ==
    IF ~f.exists THEN <<>>
    ELSE IF f.data.size > HashThreshold THEN fast_hash(f) ELSE full_hash(f)

(***************************************************************************)
(* CacheManager.get_cached_result.  fault names the step that raises:      *)
(* "none", "db" (sqlite raises at the SELECT).                             *)
(***************************************************************************)
Miss == [hit |-> FALSE]

ExpirySeconds == MaxCacheDays   \* self.max_cache_days * 24 * 3600, in ticks

\* A lookup that does not compare modification times: C2 tells it from
\* LookupRows.
LookupRows_no_mtime(tbl, f) ==
    {r \in tbl : /\ r.file_hash = calculate_file_hash(f)
                 /\ r.file_size = f.data.size}

LookupRows(tbl, f) ==
    {r \in tbl : /\ r.file_hash = calculate_file_hash(f)
                 /\ r.file_size = f.data.size
                 /\ r.file_mtime = f.mtime}

\* A lookup that never looks at the age of the row: C3 tells it from
\* get_cached_result.
get_cached_result_stale(tbl, f, t, fault) ==
    IF calculate_file_hash(f) = <<>> THEN <<Miss, tbl>>
    ELSE IF fault = "db" THEN <<Miss, tbl>>
    ELSE IF LookupRows(tbl, f) = {} THEN <<Miss, tbl>>
    ELSE LET row == CHOOSE r \in LookupRows(tbl, f) : TRUE
             h == calculate_file_hash(f)
         IN  << [hit |-> TRUE,
                 ocr_results |-> json_loads(row.ocr_results),
                 processing_time |-> row.processing_time,
                 strategy_used |-> row.strategy_used,
                 from_cache |-> TRUE],
                {IF r.file_hash = h
                 THEN [r EXCEPT !.accessed_at = t,
                                !.access_count = r.access_count + 1]
                 ELSE r : r \in tbl} >>

\* A lookup that expires a row one tick early (>= for >): C4 tells it from
\* get_cached_result.
get_cached_result_strict(tbl, f, t, fault) ==
    IF calculate_file_hash(f) = <<>> THEN <<Miss, tbl>>
    ELSE IF fault = "db" THEN <<Miss, tbl>>
    ELSE IF LookupRows(tbl, f) = {} THEN <<Miss, tbl>>
    ELSE LET row == CHOOSE r \in LookupRows(tbl, f) : TRUE
             h == calculate_file_hash(f)
         IN  IF t - row.created_at >= ExpirySeconds
             THEN <<Miss, {r \in tbl : r.file_hash # h}>>
             ELSE << [hit |-> TRUE,
                      ocr_results |-> json_loads(row.ocr_results),
                      processing_time |-> row.processing_time,
                      strategy_used |-> row.strategy_used,
                      from_cache |-> TRUE],
                     {IF r.file_hash = h
                      THEN [r EXCEPT !.accessed_at = t,
                                     !.access_count = r.access_count + 1]
                      ELSE r : r \in tbl} >>

\* A hit that counts the access and leaves the stamp of the access as it
\* was: C32 tells it from get_cached_result.
get_cached_result_count_only(tbl, f, t, fault) ==
    IF calculate_file_hash(f) = <<>> THEN <<Miss, tbl>>
    ELSE IF fault = "db" THEN <<Miss, tbl>>
    ELSE IF LookupRows(tbl, f) = {} THEN <<Miss, tbl>>
    ELSE LET row == CHOOSE r \in LookupRows(tbl, f) : TRUE
             h == calculate_file_hash(f)
         IN  IF t - row.created_at > ExpirySeconds
             THEN <<Miss, {r \in tbl : r.file_hash # h}>>
             ELSE << [hit |-> TRUE,
                      ocr_results |-> json_loads(row.ocr_results),
                      processing_time |-> row.processing_time,
                      strategy_used |-> row.strategy_used,
                      from_cache |-> TRUE],
                     {IF r.file_hash = h
                      THEN [r EXCEPT !.access_count = r.access_count + 1]
                      ELSE r : r \in tbl} >>

\* The pair <<returned value, table afterwards>>.
get_cached_result(tbl, f, t, fault) ==
    IF calculate_file_hash(f) = <<>> THEN <<Miss, tbl>>
    ELSE IF fault = "db" THEN <<Miss, tbl>>
    ELSE IF LookupRows(tbl, f) = {} THEN <<Miss, tbl>>
    ELSE LET row == CHOOSE r \in LookupRows(tbl, f) : TRUE
             h == calculate_file_hash(f)
         IN  IF t - row.created_at > ExpirySeconds
             THEN <<Miss, {r \in tbl : r.file_hash # h}>>
             ELSE << [hit |-> TRUE,
                      ocr_results |-> json_loads(row.ocr_results),
                      processing_time |-> row.processing_time,
                      strategy_used |-> row.strategy_used,
                      from_cache |-> TRUE],
                     {IF r.file_hash = h
                      THEN [r EXCEPT !.accessed_at = t,
                                     !.access_count = r.access_count + 1]
                      ELSE r : r \in tbl} >>

(***************************************************************************)
(* CacheManager._cleanup_cache.  ORDER BY accessed_at ASC LIMIT n leaves   *)
(* the order of rows with equal accessed_at to the database: every set of  *)
(* n rows that are no younger than the rows kept is a possible outcome.    *)
(***************************************************************************)
Unexpired(tbl, t) == {r \in tbl : ~(r.created_at < t - ExpirySeconds)}

\* An eviction in order of creation (first in, first out): C11 tells it
\* from Victims.
Victims_by_created(tbl, n) ==
    {V \in SUBSET tbl :
        /\ Cardinality(V) = n
        /\ \A v \in V, k \in tbl \ V : v.created_at <= k.created_at}

\* An eviction that takes the most recently accessed rows (ORDER BY
\* accessed_at DESC): C36 tells it from Victims.
Victims_newest_first(tbl, n) ==
    {V \in SUBSET tbl :
        /\ Cardinality(V) = n
        /\ \A v \in V, k \in tbl \ V : v.accessed_at >= k.accessed_at}

Victims(tbl, n) ==
    {V \in SUBSET tbl :
        /\ Cardinality(V) = n
        /\ \A v \in V, k \in tbl \ V : v.accessed_at <= k.accessed_at}

\* A cleanup pass that deletes one row too few: C10 tells it from
\* cleanup_cache.
cleanup_cache_short(tbl, t, fault) ==
    IF fault = "cleanup" THEN {tbl}
    ELSE LET kept == Unexpired(tbl, t)
             cache_count == Cardinality(kept)
         IN  IF cache_count > MaxCacheSize
             THEN {kept \ V : V \in Victims(kept, cache_count - MaxCacheSize - 1)}
             ELSE {kept}

\* The set of tables the pass can leave.
cleanup_cache(tbl, t, fault) ==
    IF fault = "cleanup" THEN {tbl}
    ELSE LET kept == Unexpired(tbl, t)
             cache_count == Cardinality(kept)
         IN  IF cache_count > MaxCacheSize
             THEN {kept \ V : V \in Victims(kept, cache_count - MaxCacheSize)}
             ELSE {kept}

(***************************************************************************)
(* CacheManager.save_result.  fault: "none", "db" (the INSERT raises),     *)
(* "cleanup" (the cleanup pass raises).                                    *)
(***************************************************************************)
NewRow(id, f, text, processing_time, strategy_used, t) ==
    [id |-> id,
     file_hash |-> calculate_file_hash(f),
     file_size |-> f.data.size,
     file_mtime |-> f.mtime,
     ocr_results |-> text,
     processing_time |-> processing_time,
     strategy_used |-> strategy_used,
     created_at |-> t,
     accessed_at |-> t,
     access_count |-> 1]

\* INSERT OR REPLACE: file_hash is UNIQUE, the row of the same hash goes.
Upsert(tbl, row) == {r \in tbl : r.file_hash # row.file_hash} \cup {row}

\* A save that commits its INSERT although the database raised: C12 tells
\* it from SaveStores.
SaveStores_despite_fault(f, result, fault) ==
    /\ calculate_file_hash(f) # <<>>
    /\ json_dumps(result).ok

\* Whether the call reaches the commit of its INSERT.
SaveStores(f, result, fault) ==
    /\ calculate_file_hash(f) # <<>>
    /\ json_dumps(result).ok
    /\ fault # "db"

\* The set of tables the call can leave.
save_result(tbl, id, f, result, processing_time, strategy_used, t, fault) ==
    IF ~SaveStores(f, result, fault) THEN {tbl}
    ELSE cleanup_cache(
             Upsert(tbl, NewRow(id, f, json_dumps(result).text,
                                processing_time, strategy_used, t)),
             t, fault)

(***************************************************************************)
(* Images.  An image is its width, its height and the OCR difficulty the   *)
(* image analyzer assesses ("unreadable": cv2.imread returns None).        *)
(***************************************************************************)
ImgMedium == [w |-> 800, h |-> 600, difficulty |-> "easy"]
ImgLarge == [w |-> 4000, h |-> 3000, difficulty |-> "medium"]
ImgStrip == [w |-> 1200, h |-> 300, difficulty |-> "hard"]
ImgSmall == [w |-> 300, h |-> 200, difficulty |-> "very_hard"]
ImgNone == [w |-> 0, h |-> 0, difficulty |-> "unreadable"]

Images == {ImgMedium, ImgLarge, ImgStrip, ImgSmall}

\* The arrays handed to ocr in memory.
ArrayImages == {ImgMedium, ImgNone}

Readable(img) == img.difficulty # "unreadable"

Max(a, b) == IF a >= b THEN a ELSE b
Min(a, b) == IF a <= b THEN a ELSE b

(***************************************************************************)
(* OptimizedPaddleOCREngine._calculate_dynamic_timeout                     *)
(***************************************************************************)
calculate_dynamic_timeout(img) ==
    IF ~Readable(img) THEN 20
    ELSE LET pixels == img.w * img.h
         IN  IF pixels > 2000000 THEN 35
             ELSE IF pixels > 1000000 THEN 25
             ELSE IF pixels > 500000 THEN 20
             ELSE 15

(***************************************************************************)
(* OptimizedPaddleOCREngine._should_use_roi (the exemption list holds one  *)
(* file name, which is none of Paths).                                     *)
(***************************************************************************)
\* A gate that takes a ratio of exactly 3 for elongated: C17 tells it from
\* should_use_roi.
should_use_roi_inclusive(img) ==
    IF ~Readable(img) THEN FALSE
    ELSE LET pixels == img.w * img.h
         IN  IF pixels < 250000 THEN FALSE
             ELSE IF pixels > 1000000 THEN TRUE
             ELSE Max(img.w, img.h) >= 3 * Min(img.w, img.h)

should_use_roi(img) ==
    IF ~Readable(img) THEN FALSE
    ELSE LET pixels == img.w * img.h
         IN  IF pixels < 250000 THEN FALSE
             ELSE IF pixels > 1000000 THEN TRUE
             ELSE Max(img.w, img.h) > 3 * Min(img.w, img.h)

(***************************************************************************)
(* SmartImageProcessor.auto_resize: whether a resized copy is written to a *)
(* new temporary file (max_size 1280, min_size 300).                       *)
(***************************************************************************)
MaxSize == 1280
MinSize == 300

auto_resize_writes(img) ==
    /\ Readable(img)
    /\ ~(img.w <= MaxSize /\ img.h <= MaxSize /\ img.w >= MinSize /\ img.h >= MinSize)

(***************************************************************************)
(* ImageAnalyzer.get_optimization_strategy and the reordering at the head  *)
(* of _process_with_strategies.                                            *)
(***************************************************************************)
get_optimization_strategy(img) ==
    IF ~Readable(img) THEN "standard"
    ELSE IF img.difficulty = "very_hard" THEN "super_aggressive"
    ELSE IF img.difficulty = "hard" THEN "aggressive"
    ELSE IF img.difficulty = "medium" THEN "enhanced"
    ELSE "standard"

StrategyOrder(img, strategies) ==
    IF ~Readable(img) THEN strategies
    ELSE LET recommended == get_optimization_strategy(img)
         IN  IF recommended = "super_aggressive"
             THEN <<"super_aggressive", "aggressive", "enhanced", "standard">>
             ELSE IF recommended = "aggressive"
             THEN <<"aggressive", "enhanced", "standard">>
             ELSE IF recommended = "enhanced"
             THEN <<"enhanced", "standard", "aggressive">>
             ELSE strategies

\* current_timeout of a strategy: int(timeout_seconds * 1.2), int(... * 1.5)
StrategyTimeout(strategy, timeout_seconds) ==
    IF strategy = "standard" THEN timeout_seconds
    ELSE IF strategy = "enhanced" THEN (timeout_seconds * 12) \div 10
    ELSE (timeout_seconds * 15) \div 10

(***************************************************************************)
(* Backend answers.  shape "record": a record with parallel rec_texts,     *)
(* rec_scores, rec_polys; shape "list": a list of [polygon, (text,         *)
(* confidence)].                                                           *)
(***************************************************************************)
ConfFloor == 20

SpanFloor == [bbox |-> 3, text |-> "EXP", conf |-> 20, pair |-> "tuple"]
SpanBlank == [bbox |-> 4, text |-> " ", conf |-> 90, pair |-> "tuple"]

RespGood == [shape |-> "record", spans |-> <<SpanGood, SpanFloor, SpanBlank>>]
RespRejected == [shape |-> "record", spans |-> <<SpanFloor>>]
RespLegacy == [shape |-> "list", spans |-> <<SpanGood>>]
RespEmpty == [shape |-> "list", spans |-> <<>>]

Responses == {RespGood, RespRejected, RespLegacy}

\* str(text).strip()
Strip(text) == IF text = " " THEN "" ELSE text

(***************************************************************************)
(* OptimizedPaddleOCREngine._format_results                                *)
(***************************************************************************)
\* A floor that lets a span at the floor itself through: C25 tells it from
\* Accepted.
Accepted_at_floor(s) == s.conf >= ConfFloor /\ Strip(s.text) # ""

\* "if confidence > 0.2 and len(text) > 0"
Accepted(s) == s.conf > ConfFloor /\ Strip(s.text) # ""

format_results(resp) ==
    IF resp.shape = "record"
    THEN LET kept == SelectSeq(resp.spans, Accepted)
         IN  [i \in DOMAIN kept |->
                [bbox |-> kept[i].bbox, text |-> Strip(kept[i].text),
                 conf |-> kept[i].conf, pair |-> "tuple"]]
    ELSE <<>>

\* "result and result[0]" of the two loops
Truthy(resp) == resp.shape = "record" \/ resp.spans # <<>>

(***************************************************************************)
(* OptimizedPaddleOCREngine.__init__                                       *)
(***************************************************************************)
NoAttempt ==
    [phase |-> "none", strategy |-> "", timeout |-> 0, spawned |-> FALSE,
     backend |-> FALSE, worker |-> <<>>, outcome |-> "none", from |-> <<>>,
     spans |-> <<>>]

NoCallState ==
    [input |-> "", img |-> ImgNone, crop_img |-> ImgNone, mode |-> "none",
     used_roi |-> FALSE, on_crop |-> FALSE, regions |-> 0, idx |-> 0,
     strategies |-> <<>>, cache_fault |-> "none", transform_fault |-> "none",
     timeout_seconds |-> 0, temp_files |-> {}, ntmp |-> 0,
     all_results |-> <<>>, att |-> NoAttempt, chan |-> <<>>,
     tried |-> 0, invoked |-> 0, first_above |-> 0, first_spans |-> <<>>,
     result |-> <<>>, start_time |-> 0]

NoReturn == [via |-> "none", value |-> <<>>, raised |-> FALSE]

EngineInit ==
    /\ pc = "idle"
    /\ call = NoCallState
    /\ ncalls = 0
    /\ ret = NoReturn
    /\ workers = {}
    /\ inbox = {}
    /\ tmp_alive = {}
    /\ reader = "ok"
    /\ process_count = 0
    /\ last_cleanup = 0

(***************************************************************************)
(* The cache manager used on its own.                                      *)
(***************************************************************************)
Faults == {"none", "db", "cleanup"}
StrategyTags == {"roi", "traditional"}

NoCall == [op |-> "none"]
NoSave == [id |-> 0]

CacheInit ==
    /\ now = 0
    /\ files = [p \in Paths |->
                  [exists |-> TRUE,
                   data |-> [head |-> IF p = "a.jpg" THEN 0 ELSE 1,
                             mid |-> 0, tail |-> 0, size |-> 1],
                   mtime |-> 0]]
    /\ table = {}
    /\ nextId = 1
    /\ nops = 0
    /\ mods = 0
    /\ saved = [p \in Paths |-> NoSave]
    /\ last = NoCall
    /\ EngineInit
    /\ picture = [p \in Paths |-> ImgMedium]

\* Time passes between two calls (a tick is a day).
Tick ==
    /\ now < MaxTime
    /\ pc \in {"idle", "returned"}
    /\ now' = now + 1
    /\ last' = NoCall
    /\ UNCHANGED <<files, table, nextId, nops, mods, saved, engineVars>>

\* The file is rewritten, touched or removed by its owner.
ModifyFile(p, d, e) ==
    /\ mods < MaxMods
    /\ files' = [files EXCEPT ![p] = [exists |-> e, data |-> d, mtime |-> now]]
    /\ files'[p] # files[p]
    /\ mods' = mods + 1
    /\ last' = NoCall
    /\ UNCHANGED <<now, table, nextId, nops, saved, engineVars>>

\* The row that holds the hash of file f (file_hash is UNIQUE), as it was
\* before the call; id 0 when there is none.
RowBefore(tbl, f) ==
    IF \E r \in tbl : r.file_hash = calculate_file_hash(f)
    THEN CHOOSE r \in tbl : r.file_hash = calculate_file_hash(f)
    ELSE [id |-> 0]

CacheGet(p, fault) ==
    /\ LET out == get_cached_result(table, files[p], now, fault)
       IN  /\ table' = out[2]
           /\ last' = [op |-> "get", path |-> p, fault |-> fault,
                       res |-> out[1], row |-> RowBefore(table, files[p])]
    /\ nops' = nops + 1
    /\ UNCHANGED <<now, files, nextId, mods, saved, engineVars>>

CacheSave(p, result, elapsed, strategy, fault) ==
    /\ \E tbl \in save_result(table, nextId, files[p], result, elapsed,
                              strategy, now, fault) :
          /\ table' = tbl
          /\ last' = [op |-> "save", path |-> p, fault |-> fault,
                      stored |-> SaveStores(files[p], result, fault),
                      dropped |-> (table \ tbl) \ {RowBefore(table, files[p])}]
    /\ nextId' = IF SaveStores(files[p], result, fault) THEN nextId + 1 ELSE nextId
    /\ saved' = IF SaveStores(files[p], result, fault)
                THEN [saved EXCEPT ![p] =
                        [id |-> nextId, file |-> files[p], result |-> result,
                         elapsed |-> elapsed, strategy |-> strategy, at |-> now]]
                ELSE saved
    /\ nops' = nops + 1
    /\ UNCHANGED <<now, files, mods, engineVars>>

CacheNext ==
    \/ Tick
    \/ \E p \in Paths, d \in Contents, e \in BOOLEAN : ModifyFile(p, d, e)
    \/ \E p \in Paths, fault \in {"none", "db"} :
          nops < MaxOps /\ CacheGet(p, fault)
    \/ \E p \in Paths, result \in Payloads, fault \in Faults :
          /\ nops < MaxOps
          /\ CacheSave(p, result, now, IF result.spans[1].pair = "list"
                                       THEN "roi" ELSE "traditional", fault)

CacheSpec == CacheInit /\ [][CacheNext]_vars

(***************************************************************************)
(* The cache filled beyond its capacity: saves and lookups that do not     *)
(* fail, on files rewritten with new content.                              *)
(***************************************************************************)
EvictNext ==
    \/ Tick
    \/ \E p \in Paths, d \in Contents :
          d.size = 1 /\ ModifyFile(p, d, TRUE)
    \/ \E p \in Paths : nops < MaxEvictOps /\ CacheGet(p, "none")
    \/ \E p \in Paths :
          /\ nops < MaxEvictOps
          /\ CacheSave(p, [ser |-> TRUE, spans |-> <<SpanGood>>], now,
                       "traditional", "none")

EvictSpec == CacheInit /\ [][EvictNext]_vars

(***************************************************************************)
(* The resource guard at the head of ocr: _check_memory_usage and          *)
(* _force_cleanup.  memory is what psutil reports: "normal", or "critical" *)
(* (above 1200 MB); rebuild_ok tells whether PaddleOCR(...) can be         *)
(* constructed again.                                                      *)
(***************************************************************************)
CheckEvery == 10          \* self._process_count % 10 == 0
CheckInterval == 60       \* current_time - self._last_cleanup > 60 (seconds)
ForceCleanupCount == 100  \* self._process_count > 100

force_cleanup(rebuild_ok) == IF rebuild_ok THEN "ok" ELSE "none"

check_memory_usage(rd, memory, rebuild_ok) ==
    IF memory = "critical" THEN force_cleanup(rebuild_ok) ELSE rd

\* The seconds in a tick of the clock, and the seconds from since to t.
DaySeconds == 24 * 3600

SecondsSince(t, since) == (t - since) * DaySeconds

\* An inspection on every call: C29 tells it from MemoryCheckDue.
MemoryCheckDue_always(count, elapsed) == TRUE

\* An inspection already at 60 seconds: C28 tells it from MemoryCheckDue.
MemoryCheckDue_at_interval(count, elapsed) ==
    count % CheckEvery = 0 \/ elapsed >= CheckInterval

\* elapsed is current_time - self._last_cleanup, in seconds.
MemoryCheckDue(count, elapsed) ==
    count % CheckEvery = 0 \/ elapsed > CheckInterval

\* The reader after the guard of a call that raises the counter to count.
GuardedReader(rd, count, elapsed, memory, rebuild_ok) ==
    LET checked == IF MemoryCheckDue(count, elapsed)
                   THEN check_memory_usage(rd, memory, rebuild_ok)
                   ELSE rd
    IN  IF count > ForceCleanupCount THEN force_cleanup(rebuild_ok) ELSE checked

(***************************************************************************)
(* OptimizedPaddleOCREngine._process_with_roi_detection: crops is the      *)
(* number of files crop_text_regions has written (0: it found no region or *)
(* failed, and returned the image itself).                                 *)
(***************************************************************************)
RoiMaxRegions == 15
RoiSecondsPerRegion == 8
RoiBudget == 60

CropCounts == {0, 2, 8}

CropEasy == [w |-> 640, h |-> 360, difficulty |-> "easy"]
CropHard == [w |-> 200, h |-> 60, difficulty |-> "hard"]
CropImages == {CropEasy, CropHard}

RoiAccepted(img, crops) ==
    /\ should_use_roi(img)
    /\ crops > 1
    /\ crops <= RoiMaxRegions
    /\ crops * RoiSecondsPerRegion <= RoiBudget

CropFiles(img, crops) ==
    IF should_use_roi(img) THEN {[kind |-> "crop", n |-> k] : k \in 1..crops}
    ELSE {}

(***************************************************************************)
(* OptimizedPaddleOCREngine._process_with_smart_preprocessing.  fault:     *)
(* "none", or "fail": the last transform of the strategy raises (it is     *)
(* caught by the transform, which returns the path it was given).          *)
(* Result: the kinds of temporary file written, and the kind returned with *)
(* is_temp = True ("none" when is_temp = False).                           *)
(***************************************************************************)
process_with_smart_preprocessing(strategy, img, fault) ==
    IF strategy = "standard"
    THEN IF auto_resize_writes(img) /\ fault = "none"
         THEN [made |-> {"resized"}, is_temp |-> "resized"]
         ELSE [made |-> {}, is_temp |-> "none"]
    ELSE LET resized == IF auto_resize_writes(img) THEN {"resized"} ELSE {}
         IN  IF Readable(img) /\ fault = "none"
             THEN [made |-> resized \cup {"enhanced"}, is_temp |-> "enhanced"]
             ELSE [made |-> resized, is_temp |-> "none"]

(***************************************************************************)
(* OptimizedPaddleOCREngine._execute_ocr_with_timeout and _ocr_worker      *)
(***************************************************************************)
\* One queue shared by every invocation: C5 tells it from new_queue.
shared_queue(c, k) == <<0, 0>>

\* queue.Queue(): the result queue of attempt k of call c.
new_queue(c, k) == <<c, k>>

\* The messages waiting on queue q.
queue_items(box, q) == {m \in box : m.chan = q}

\* A queue.get without a timeout: C6 tells it from queue_get_times_out.
queue_get_blocks(box, q) == FALSE

\* queue.get(timeout=...) raises queue.Empty when nothing has arrived.
queue_get_times_out(box, q) == queue_items(box, q) = {}

\* What _ocr_worker puts on its queue: its backend answer, or the error.
WorkerMessage(w, status, resp) ==
    [chan |-> w.chan, from |-> w.id,
     status |-> IF w.backend THEN status ELSE "error",
     results |-> IF w.backend /\ status = "success" THEN resp ELSE RespEmpty]

\* What the invoker hands back for a message: the results, or None.
InvokerValue(m) == IF m.status = "success" THEN m.results ELSE RespEmpty

\* The spans an attempt contributes: "if result and result[0]" and then
\* "if formatted_results".
AttemptSpans(resp) == IF Truthy(resp) THEN format_results(resp) ELSE <<>>

(***************************************************************************)
(* The two loops: _process_roi_regions and _process_with_strategies.       *)
(* Advance gives the call after an attempt that contributed spans, and     *)
(* whether the loops are over.                                             *)
(***************************************************************************)
DefaultStrategies == <<"standard", "enhanced", "aggressive">>
FallbackStrategies == <<"standard", "enhanced">>

\* A strategy loop that leaves out the last strategy of its list: C7 tells
\* it from Advance.
Advance_skips_last(c, spans) ==
    IF c.mode = "strategies"
    THEN IF spans # <<>>
         THEN [over |-> TRUE, call |-> [c EXCEPT !.result = spans]]
         ELSE IF c.idx < Len(c.strategies) - 1
         THEN [over |-> FALSE, call |-> [c EXCEPT !.idx = c.idx + 1]]
         ELSE [over |-> TRUE, call |-> [c EXCEPT !.result = <<>>]]
    ELSE LET all == c.all_results \o spans
         IN  IF c.idx < c.regions
             THEN [over |-> FALSE,
                   call |-> [c EXCEPT !.idx = c.idx + 1, !.all_results = all]]
             ELSE IF all # <<>>
             THEN [over |-> TRUE,
                   call |-> [c EXCEPT !.all_results = all, !.result = all]]
             ELSE [over |-> FALSE,
                   call |-> [c EXCEPT !.mode = "strategies",
                                      !.on_crop = TRUE,
                                      !.all_results = all,
                                      !.strategies =
                                          StrategyOrder(c.crop_img, FallbackStrategies),
                                      !.idx = 1]]

\* A strategy loop that starts its list again after the last strategy failed:
\* C35 tells it from Advance.
Advance_restarts(c, spans) ==
    IF c.mode = "strategies"
    THEN IF spans # <<>>
         THEN [over |-> TRUE, call |-> [c EXCEPT !.result = spans]]
         ELSE IF c.idx < Len(c.strategies)
         THEN [over |-> FALSE, call |-> [c EXCEPT !.idx = c.idx + 1]]
         ELSE [over |-> FALSE, call |-> [c EXCEPT !.idx = 1]]
    ELSE Advance_skips_last(c, spans)

Advance(c, spans) ==
    IF c.mode = "strategies"
    THEN IF spans # <<>>
         THEN [over |-> TRUE, call |-> [c EXCEPT !.result = spans]]
         ELSE IF c.idx < Len(c.strategies)
         THEN [over |-> FALSE, call |-> [c EXCEPT !.idx = c.idx + 1]]
         ELSE [over |-> TRUE, call |-> [c EXCEPT !.result = <<>>]]
    ELSE LET all == c.all_results \o spans
         IN  IF c.idx < c.regions
             THEN [over |-> FALSE,
                   call |-> [c EXCEPT !.idx = c.idx + 1, !.all_results = all]]
             ELSE IF all # <<>>
             THEN [over |-> TRUE,
                   call |-> [c EXCEPT !.all_results = all, !.result = all]]
             ELSE [over |-> FALSE,
                   call |-> [c EXCEPT !.mode = "strategies",
                                      !.on_crop = TRUE,
                                      !.all_results = all,
                                      !.strategies =
                                          StrategyOrder(c.crop_img, FallbackStrategies),
                                      !.idx = 1]]

\* The strategy and the image of the attempt the call is at.
CurrentStrategy(c) == IF c.mode = "roi" THEN "standard" ELSE c.strategies[c.idx]

CurrentImage(c) == IF c.mode = "roi" \/ c.on_crop THEN c.crop_img ELSE c.img

(***************************************************************************)
(* OptimizedPaddleOCREngine.ocr, from its entry to its first attempt (or   *)
(* to its return on a cache hit).  input is a path or "array" (an image    *)
(* in memory, arr; ImgNone is an array cv2.imwrite cannot write).          *)
(***************************************************************************)
InputImage(input, arr) ==
    IF input \in Paths
    THEN IF files[input].exists THEN picture[input] ELSE ImgNone
    ELSE arr

InputTemp == [kind |-> "input", n |-> 0]

\* cv2.imwrite(image_path, image), outside every try block of ocr.
ImwriteRaises(input, arr) == input \notin Paths /\ ~Readable(arr)

OcrBegin(input, arr, memory, rebuild_ok, cfault, tfault, crops, cimg) ==
    /\ pc \in {"idle", "returned"}
    /\ ncalls < MaxCalls
    /\ LET img == InputImage(input, arr)
           lookup == IF input \in Paths
                     THEN get_cached_result(table, files[input], now, cfault)
                     ELSE <<Miss, table>>
           roi == RoiAccepted(img, crops)
           begun == [NoCallState EXCEPT
                       !.input = input,
                       !.img = img,
                       !.crop_img = cimg,
                       !.mode = IF roi THEN "roi" ELSE "strategies",
                       !.used_roi = roi,
                       !.regions = IF roi THEN crops ELSE 0,
                       !.idx = 1,
                       !.strategies = IF roi THEN DefaultStrategies
                                      ELSE StrategyOrder(img, DefaultStrategies),
                       !.cache_fault = cfault,
                       !.transform_fault = tfault,
                       !.timeout_seconds = calculate_dynamic_timeout(img),
                       !.start_time = now]
       IN  /\ reader' = GuardedReader(reader, process_count + 1,
                                      SecondsSince(now, last_cleanup),
                                      memory, rebuild_ok)
           /\ last_cleanup' = IF MemoryCheckDue(process_count + 1,
                                                SecondsSince(now, last_cleanup))
                              THEN now ELSE last_cleanup
           /\ process_count' = IF process_count + 1 > ForceCleanupCount
                               THEN 0 ELSE process_count + 1
           /\ IF ImwriteRaises(input, arr)
              THEN /\ pc' = "returned"
                   /\ call' = [NoCallState EXCEPT !.input = input, !.start_time = now]
                   /\ ret' = [via |-> "raise", value |-> <<>>, raised |-> TRUE]
                   /\ tmp_alive' = {InputTemp}
                   /\ table' = table
              ELSE IF lookup[1].hit
              THEN /\ pc' = "returned"
                   /\ call' = [NoCallState EXCEPT !.input = input, !.start_time = now]
                   /\ ret' = [via |-> "cache",
                              value |-> lookup[1].ocr_results.spans,
                              raised |-> FALSE]
                   /\ tmp_alive' = {}
                   /\ table' = lookup[2]
              ELSE /\ pc' = "attempt"
                   /\ call' = begun
                   /\ ret' = NoReturn
                   /\ tmp_alive' =
                        (IF input \in Paths THEN {} ELSE {InputTemp})
                        \cup CropFiles(img, crops)
                   /\ table' = lookup[2]
    /\ ncalls' = ncalls + 1
    /\ UNCHANGED <<now, files, nextId, nops, mods, saved, last, picture,
                   workers, inbox>>

(***************************************************************************)
(* One pass of a loop body up to the wait on the result queue: the         *)
(* transform of the strategy, then _execute_ocr_with_timeout up to         *)
(* result_queue.get.                                                       *)
(***************************************************************************)
\* An invoker that runs on the output of a transform only: C33 tells it
\* from ProcessedExists.
ProcessedExists_transformed_only(c, pre) == pre.is_temp # "none"

\* os.path.exists(image_path) at the head of the invoker.
ProcessedExists(c, pre) ==
    \/ pre.is_temp # "none"
    \/ c.mode = "roi"
    \/ c.on_crop
    \/ c.input \notin Paths
    \/ files[c.input].exists

NewAttempt(c, strategy, spawned, rd) ==
    [phase |-> c.mode, strategy |-> strategy,
     timeout |-> IF c.mode = "roi" THEN c.timeout_seconds
                 ELSE StrategyTimeout(strategy, c.timeout_seconds),
     spawned |-> spawned, backend |-> spawned /\ rd = "ok",
     worker |-> IF spawned THEN <<ncalls, c.ntmp + 1>> ELSE <<>>,
     outcome |-> IF spawned THEN "pending" ELSE "error",
     from |-> <<>>, spans |-> <<>>]

StartAttempt ==
    /\ pc = "attempt"
    /\ LET strategy == CurrentStrategy(call)
           pre == process_with_smart_preprocessing(strategy, CurrentImage(call),
                                                   call.transform_fault)
           k == call.ntmp + 1
           made == {[kind |-> kind, n |-> k] : kind \in pre.made}
           tracked == {t \in made : t.kind = pre.is_temp}
           spawned == ProcessedExists(call, pre)
           looping == call.mode = "strategies"
           c1 == [call EXCEPT
                    !.ntmp = k,
                    !.temp_files = call.temp_files \cup tracked,
                    !.att = NewAttempt(call, strategy, spawned, reader),
                    !.tried = IF looping THEN @ + 1 ELSE @,
                    !.invoked = IF looping /\ spawned /\ reader = "ok"
                                THEN @ + 1 ELSE @,
                    !.chan = IF spawned THEN new_queue(ncalls, k) ELSE <<>>]
       IN  /\ tmp_alive' = tmp_alive \cup made
           /\ IF spawned
              THEN /\ workers' = workers \cup
                                   {[id |-> <<ncalls, k>>,
                                     chan |-> new_queue(ncalls, k),
                                     backend |-> reader = "ok"]}
                   /\ call' = c1
                   /\ pc' = "waiting"
              ELSE LET nxt == Advance(c1, <<>>)
                   IN  /\ workers' = workers
                       /\ call' = nxt.call
                       /\ pc' = IF nxt.over THEN "finish" ELSE "attempt"
    /\ UNCHANGED <<now, files, table, nextId, nops, mods, saved, last, picture,
                   ncalls, ret, inbox, reader, process_count, last_cleanup>>

\* A worker thread ends: the backend answered, or raised, or there was no
\* backend to ask.  A worker that never ends is one that never takes this
\* step.
WorkerFinish(w, status, resp) ==
    /\ w \in workers
    /\ workers' = workers \ {w}
    /\ inbox' = inbox \cup {WorkerMessage(w, status, resp)}
    /\ UNCHANGED <<now, files, table, nextId, nops, mods, saved, last, picture,
                   pc, call, ncalls, ret, tmp_alive, reader, process_count,
                   last_cleanup>>

\* The spans of a backend answer that are above the confidence floor,
\* whatever the shape of the answer.
SpansAboveFloor(resp) ==
    LET kept == SelectSeq(resp.spans, Accepted)
    IN  [i \in DOMAIN kept |->
           [bbox |-> kept[i].bbox, text |-> Strip(kept[i].text),
            conf |-> kept[i].conf, pair |-> "tuple"]]

\* The call with its current attempt closed.
Closed(c, outcome, from, resp) ==
    LET first == c.mode = "strategies" /\ c.first_above = 0
                 /\ SpansAboveFloor(resp) # <<>>
    IN  [c EXCEPT !.att = [@ EXCEPT !.outcome = outcome, !.from = from,
                                    !.spans = AttemptSpans(resp)],
                  !.first_above = IF first THEN c.tried ELSE @,
                  !.first_spans = IF first THEN SpansAboveFloor(resp) ELSE @,
                  !.chan = <<>>]

\* result_queue.get returns a message.
AwaitResult(m) ==
    /\ pc = "waiting"
    /\ m \in queue_items(inbox, call.chan)
    /\ inbox' = inbox \ {m}
    /\ LET resp == InvokerValue(m)
           nxt == Advance(Closed(call, IF m.status = "success" THEN "result"
                                       ELSE "error", m.from, resp),
                          AttemptSpans(resp))
       IN  /\ call' = nxt.call
           /\ pc' = IF nxt.over THEN "finish" ELSE "attempt"
    /\ UNCHANGED <<now, files, table, nextId, nops, mods, saved, last, picture,
                   ncalls, ret, workers, tmp_alive, reader, process_count,
                   last_cleanup>>

\* The workers left behind by earlier timeouts, running or answered late.
Abandoned ==
    {w.id : w \in {x \in workers : x.chan # call.chan}}
    \cup {m.from : m \in {x \in inbox : x.chan # call.chan}}

\* result_queue.get raises queue.Empty: the invoker returns None and the
\* worker is left running.  Beyond MaxAbandoned workers the model stops
\* following the worker it leaves behind.
AwaitTimeout ==
    /\ pc = "waiting"
    /\ queue_get_times_out(inbox, call.chan)
    /\ workers' = IF Cardinality(Abandoned) < MaxAbandoned THEN workers
                  ELSE {w \in workers : w.chan # call.chan}
    /\ LET nxt == Advance(Closed(call, "timeout", <<>>, RespEmpty), <<>>)
       IN  /\ call' = nxt.call
           /\ pc' = IF nxt.over THEN "finish" ELSE "attempt"
    /\ UNCHANGED <<now, files, table, nextId, nops, mods, saved, last, picture,
                   ncalls, ret, inbox, tmp_alive, reader, process_count,
                   last_cleanup>>

(***************************************************************************)
(* The end of ocr: the write to the cache, the finally block, the return.  *)
(***************************************************************************)
\* What the finally block unlinks.
Unlinked(c) ==
    c.temp_files \cup
    (IF c.input \in Paths THEN {} ELSE {InputTemp})

\* A write-through that does not look at the result: C13 tells it from
\* WritesCache.
WritesCache_empty_too(c) == c.input \in Paths

\* "if result and result[0] and self.cache_manager and isinstance(image, str)"
WritesCache(c) == c.result # <<>> /\ c.input \in Paths

OcrReturn(sfault) ==
    /\ pc = "finish"
    /\ LET result == [ser |-> TRUE, spans |-> call.result]
           tag == IF call.used_roi THEN "roi" ELSE "traditional"
           elapsed == now - call.start_time
           f == files[call.input]
       IN  IF WritesCache(call)
           THEN /\ \E tbl \in save_result(table, nextId, f, result, elapsed,
                                          tag, now, sfault) :
                      table' = tbl
                /\ nextId' = IF SaveStores(f, result, sfault)
                             THEN nextId + 1 ELSE nextId
                /\ saved' = IF SaveStores(f, result, sfault)
                            THEN [saved EXCEPT ![call.input] =
                                    [id |-> nextId, file |-> f, result |-> result,
                                     elapsed |-> elapsed, strategy |-> tag,
                                     at |-> now]]
                            ELSE saved
           ELSE /\ sfault = "none"
                /\ UNCHANGED <<table, nextId, saved>>
    /\ tmp_alive' = tmp_alive \ Unlinked(call)
    /\ ret' = [via |-> IF call.used_roi THEN "roi" ELSE "traditional",
               value |-> call.result, raised |-> FALSE]
    /\ pc' = "returned"
    \* The model follows the workers a call leaves behind to the end of the call.
    /\ workers' = {}
    /\ inbox' = {}
    /\ UNCHANGED <<now, files, nops, mods, last, picture, call, ncalls,
                   reader, process_count, last_cleanup>>

(***************************************************************************)
(* The engine with its cache.                                              *)
(***************************************************************************)
Init ==
    /\ now = 0
    /\ files = [p \in Paths |->
                  [exists |-> p = "a.jpg",
                   data |-> [head |-> 0, mid |-> 0, tail |-> 0, size |-> 1],
                   mtime |-> 0]]
    /\ table = {}
    /\ nextId = 1
    /\ nops = 0
    /\ mods = 0
    /\ saved = [p \in Paths |-> NoSave]
    /\ last = NoCall
    /\ EngineInit
    /\ \E img \in Images : picture = [p \in Paths |-> img]

\* The inputs of a call that make a difference to it.
Relevant(input, arr, memory, rebuild_ok, cfault, crops, cimg) ==
    LET img == InputImage(input, arr)
    IN  /\ memory = "normal" => rebuild_ok
        /\ ~MemoryCheckDue(process_count + 1, SecondsSince(now, last_cleanup))
              => memory = "normal"
        /\ cfault = "db" =>
              /\ input \in Paths
              /\ get_cached_result(table, files[input], now, "none")[1].hit
        /\ ~should_use_roi(img) => crops = 0
        /\ ~RoiAccepted(img, crops) => cimg = CropEasy

BeginOnPath ==
    \E input \in Paths, memory \in {"normal", "critical"}, rebuild_ok \in BOOLEAN,
       cfault \in {"none", "db"}, tfault \in {"none", "fail"},
       crops \in CropCounts, cimg \in CropImages :
        /\ Relevant(input, ImgNone, memory, rebuild_ok, cfault, crops, cimg)
        /\ OcrBegin(input, ImgNone, memory, rebuild_ok, cfault, tfault, crops, cimg)

BeginOnArray ==
    \E arr \in ArrayImages, tfault \in {"none", "fail"},
       crops \in CropCounts, cimg \in CropImages :
        /\ Relevant("array", arr, "normal", TRUE, "none", crops, cimg)
        /\ OcrBegin("array", arr, "normal", TRUE, "none", tfault, crops, cimg)

\* The answers followed: any answer to the invoker that waits, one late
\* answer to an invoker that has gone.
WorkerEnds ==
    \E w \in workers :
        \/ \E resp \in Responses :
              /\ w.chan # call.chan => resp = RespGood
              /\ WorkerFinish(w, "success", resp)
        \/ w.chan = call.chan /\ WorkerFinish(w, "error", RespEmpty)

InvokerReturns ==
    \/ \E m \in inbox : AwaitResult(m)
    \/ AwaitTimeout

\* Time passes between two calls of ocr.
BetweenCalls == pc = "returned" /\ ncalls < MaxCalls /\ Tick

Next ==
    \/ BetweenCalls
    \/ BeginOnPath
    \/ BeginOnArray
    \/ StartAttempt
    \/ WorkerEnds
    \/ InvokerReturns
    \/ \E sfault \in Faults : OcrReturn(sfault)

Spec == Init /\ [][Next]_vars

\* queue.get(timeout=...) returns or raises by its deadline.
FairSpec == Spec /\ WF_vars(InvokerReturns)

(***************************************************************************)
(* Claims about the fingerprint cache (checked under CacheSpec).           *)
(***************************************************************************)
Age(r) == now - r.created_at

RowMatchesFile(r, f) ==
    /\ r.id # 0
    /\ f.exists
    /\ r.file_hash = calculate_file_hash(f)
    /\ r.file_size = f.data.size
    /\ r.file_mtime = f.mtime

\* C2: get_cached_result returns a hit only if a stored row matches the
\* file's fingerprint, size and modification time and the row's age
\* (now - created_at) is within the expiry window; a matching row older
\* than the window is deleted and the call returns a miss; a hit leaves
\* created_at as it was, so it never extends the expiry.
C2_HitOnlyFreshMatch ==
    last.op = "get" =>
        /\ last.res.hit =>
              /\ RowMatchesFile(last.row, files[last.path])
              /\ Age(last.row) <= ExpirySeconds
              /\ \E r \in table : /\ r.id = last.row.id
                                  /\ r.created_at = last.row.created_at
        /\ ( /\ last.fault = "none"
             /\ RowMatchesFile(last.row, files[last.path])
             /\ Age(last.row) > ExpirySeconds )
           => /\ ~last.res.hit
              /\ \A r \in table : r.file_hash # last.row.file_hash

\* C2 witness: a lookup met a matching row older than the window, deleted
\* it and answered with a miss.
C2_ExpiredLookup ==
    /\ last.op = "get"
    /\ last.fault = "none"
    /\ RowMatchesFile(last.row, files[last.path])
    /\ Age(last.row) > ExpirySeconds
    /\ ~last.res.hit
    /\ \A r \in table : r.id # last.row.id

\* The save whose row a lookup of path p has just read: the file is as it
\* was when saved and the row of that save was still in the table.
ReadsOwnSave(p) ==
    /\ last.op = "get"
    /\ last.path = p
    /\ last.fault = "none"
    /\ saved[p].id # 0
    /\ saved[p].file = files[p]
    /\ last.row.id = saved[p].id

SameSpans(a, b) ==
    /\ Len(a) = Len(b)
    /\ \A i \in 1..Len(a) : /\ a[i].bbox = b[i].bbox
                            /\ a[i].text = b[i].text
                            /\ a[i].conf = b[i].conf

\* C3 as stated: save_result followed by get_cached_result on the
\* unmodified file, within the window and with the row still there,
\* returns a hit with from_cache = True and exactly the stored result,
\* processing time and strategy; past the window the lookup misses and the
\* row is gone.
C3_RoundTripExact ==
    \A p \in Paths :
        ReadsOwnSave(p) =>
            IF now - saved[p].at <= ExpirySeconds
            THEN /\ last.res.hit
                 /\ last.res.from_cache
                 /\ last.res.ocr_results = saved[p].result
                 /\ last.res.processing_time = saved[p].elapsed
                 /\ last.res.strategy_used = saved[p].strategy
            ELSE /\ ~last.res.hit
                 /\ \A r \in table : r.id # saved[p].id

\* C3 amended: the hit returns the stored result as JSON reads it back:
\* the same spans in the same order with the same polygon, text and
\* confidence, every (text, confidence) pair a two-element list, whether
\* it was stored as a tuple or as a list; processing time and strategy are
\* exactly the stored ones; past the window the lookup misses and the row
\* is gone.
C3_RoundTripJson ==
    \A p \in Paths :
        ReadsOwnSave(p) =>
            IF now - saved[p].at <= ExpirySeconds
            THEN /\ last.res.hit
                 /\ last.res.from_cache
                 /\ SameSpans(last.res.ocr_results.spans, saved[p].result.spans)
                 /\ \A i \in 1..Len(last.res.ocr_results.spans) :
                        last.res.ocr_results.spans[i].pair = "list"
                 /\ last.res.processing_time = saved[p].elapsed
                 /\ last.res.strategy_used = saved[p].strategy
            ELSE /\ ~last.res.hit
                 /\ \A r \in table : r.id # saved[p].id

\* C3 witness: a lookup hit the row of an earlier save whose spans were
\* stored as tuples.
C3_HitAfterSave ==
    \E p \in Paths :
        /\ ReadsOwnSave(p)
        /\ last.res.hit
        /\ saved[p].result.spans[1].pair = "tuple"

\* A save_result that ran to the end: the row was written and the cleanup
\* pass committed.
SaveCompleted == last.op = "save" /\ last.stored /\ last.fault = "none"

\* C10: right after every completed save_result the table holds at most
\* max_cache_size rows and no row is older than the expiry window.
C10_BoundedAfterSave ==
    SaveCompleted =>
        /\ Cardinality(table) <= MaxCacheSize
        /\ \A r \in table : Age(r) <= ExpirySeconds

\* C10 witness: a completed save whose cleanup pass had to delete a row.
C10_SaveEvicted ==
    /\ SaveCompleted
    /\ last.dropped # {}
    /\ Cardinality(table) = MaxCacheSize

(***************************************************************************)
(* Claims about the engine (checked under Spec, C6 under FairSpec).        *)
(***************************************************************************)
\* C1: in _process_with_strategies the backend is invoked once per
\* attempted strategy and the loop stops at the first strategy whose
\* backend result holds a span above the confidence floor: that attempt is
\* the last one, and the outcome of the loop is exactly the spans of that
\* result that are above the floor.
C1_StopsAtFirstSuccess ==
    (pc = "finish" /\ call.first_above # 0) =>
        /\ call.tried = call.first_above
        /\ call.invoked = call.tried
        /\ call.result = call.first_spans

\* The entry saved for path p is in the table and within the window.
HeldFresh(p) ==
    /\ saved[p].id # 0
    /\ \E r \in table : r.id = saved[p].id
    /\ now - saved[p].at <= ExpirySeconds

\* C4: a call of ocr on a path whose cache lookup hits returns the cached
\* spans at once: it detects no region, writes no temporary file, starts
\* no worker and asks the backend nothing; so a call on a path whose
\* earlier result is held and within the window (the lookup not failing)
\* returns from the cache, with the spans the earlier call computed.
C4_CacheHitSkipsWork ==
    [][ncalls' = ncalls + 1 =>
          /\ ret'.via = "cache" =>
                /\ pc' = "returned"
                /\ call'.input \in Paths
                /\ call'.mode = "none"
                /\ call'.ntmp = 0
                /\ call'.invoked = 0
                /\ workers' = workers
                /\ inbox' = inbox
                /\ tmp_alive' = {}
                /\ saved[call'.input].id # 0
                /\ SameSpans(ret'.value, saved[call'.input].result.spans)
          /\ ( /\ call'.input \in Paths
               /\ HeldFresh(call'.input)
               /\ call'.cache_fault = "none" )
             => ret'.via = "cache"]_vars

\* C4 witness: the second call returned from the cache the spans the first
\* call had computed and saved.
C4_SecondCallFromCache ==
    /\ ncalls = 2
    /\ pc = "returned"
    /\ ret.via = "cache"
    /\ ret.value # <<>>

\* The file the invoker is handed exists: a temporary file the call wrote,
\* or the input, which is still there.
InputExists == call.input \notin Paths \/ files[call.input].exists

\* A step that enters the invoker.
EntersInvoker == pc = "attempt" /\ call'.ntmp = call.ntmp + 1

\* C5 as stated: every call of the invoker starts a worker.
C5_EveryCallStartsWorker ==
    call.att.phase # "none" => call.att.spawned

\* C5 amended: every call of the invoker on a file that exists starts one
\* worker with a queue no other worker or message is on (on a missing file
\* it starts none and returns the error outcome); a timeout leaves the
\* worker running; the only message a call ever takes is the one its own
\* worker has put, so what an abandoned worker puts later is never
\* returned.
C5_FreshWorkerPerCall ==
    [][ /\ EntersInvoker =>
             IF InputExists
             THEN /\ call'.att.spawned
                  /\ Cardinality(workers' \ workers) = 1
                  /\ \A w \in workers' \ workers :
                        /\ w.id = call'.att.worker
                        /\ w.chan = call'.chan
                        /\ \A x \in workers \cup inbox : x.chan # w.chan
             ELSE /\ ~call'.att.spawned
                  /\ workers' = workers
                  /\ call'.att.outcome = "error"
        /\ (pc = "waiting" /\ pc' # "waiting") =>
             /\ call'.att.outcome = "timeout" =>
                  /\ inbox' = inbox
                  /\ Cardinality(Abandoned) < MaxAbandoned =>
                        \E w \in workers' : w.id = call.att.worker
             /\ call'.att.outcome # "timeout" =>
                  /\ call'.att.from = call.att.worker
                  /\ \A m \in inbox \ inbox' : m.from = call.att.worker
      ]_vars

\* C5 witness: an abandoned worker has answered late, its message lies on
\* its own queue, and a later invocation has returned the result of its
\* own worker.
C5_LateAnswerIgnored ==
    /\ pc \in {"attempt", "finish"}
    /\ call.att.outcome = "result"
    /\ \E m \in inbox : m.from # call.att.worker /\ m.from[2] < call.att.worker[2]

\* C6: every call of the invoker returns, with exactly one of a backend
\* result, the timed-out outcome and the error outcome; when its worker
\* has put nothing on the queue (a backend that does not return) the call
\* returns timed-out.
C6_InvokerAlwaysReturns ==
    /\ [][(pc = "waiting" /\ pc' # "waiting") =>
            /\ call'.att.outcome \in {"result", "timeout", "error"}
            /\ queue_items(inbox, call.chan) = {} => call'.att.outcome = "timeout"
         ]_vars
    /\ (pc = "waiting") ~> (pc # "waiting")

\* C6 witness: an invocation timed out and its worker is still running.
C6_TimedOutWhileRunning ==
    /\ call.att.outcome = "timeout"
    /\ \E w \in workers : w.id = call.att.worker

\* A step that ends an attempt of the strategy loop without a span.
AttemptFails ==
    /\ call.mode = "strategies"
    /\ \/ pc = "waiting" /\ pc' # "waiting"
       \/ EntersInvoker /\ ~call'.att.spawned
    /\ call'.att.spans = <<>>

\* C7: an attempt of the strategy loop that fails (backend error, timeout,
\* no span above the floor) moves the loop to the next strategy of the
\* list; the loop ends empty only when every strategy of the list has been
\* attempted; ocr then returns an empty outcome, raises nothing and leaves
\* the cache as it was.
C7_FailuresAdvance ==
    [][ /\ AttemptFails =>
             IF call.idx < Len(call.strategies)
             THEN /\ pc' = "attempt"
                  /\ call'.idx = call.idx + 1
                  /\ call'.strategies = call.strategies
             ELSE /\ pc' = "finish"
                  /\ call'.result = <<>>
        /\ (pc # "finish" /\ pc' = "finish" /\ call'.result = <<>>) =>
             /\ call'.mode = "strategies"
             /\ call'.tried = Len(call'.strategies)
        /\ (pc = "finish" /\ pc' # "finish" /\ call.result = <<>>) =>
             /\ pc' = "returned"
             /\ ret'.value = <<>>
             /\ ~ret'.raised
             /\ table' = table
      ]_vars

\* C7 witness: every strategy of the default list was attempted, the last
\* one timed out, and ocr returned an empty outcome.
C7_AllStrategiesFailed ==
    /\ pc = "returned"
    /\ ret.via = "traditional"
    /\ ret.value = <<>>
    /\ call.tried = Len(DefaultStrategies)
    /\ call.att.outcome = "timeout"

\* C8: ocr never raises to its caller.
C8_NeverRaises == ~ret.raised

\* C9: when a call of ocr has returned an outcome (let alone raised),
\* every temporary file it created has been deleted.
C9_TempFilesDeleted == (pc = "returned" /\ ~ret.raised) => tmp_alive = {}

(***************************************************************************)
(* Claims about eviction (checked under EvictSpec).                        *)
(***************************************************************************)
\* The rows the cleanup pass of the last save deleted for lack of room:
\* those it deleted that were not older than the window.
Evicted == {r \in last.dropped : Age(r) <= ExpirySeconds}

\* C11: a hit stamps its row with the time of the hit; the capacity
\* eviction of a completed save deletes exactly count - capacity rows, so
\* that exactly capacity rows stay, and no deleted row was accessed later
\* than a row that stays: the rows that stay are the most recently
\* accessed, a hit counting as an access.
C11_EvictsLeastRecentlyAccessed ==
    /\ (last.op = "get" /\ last.res.hit) =>
          \E r \in table : /\ r.id = last.row.id
                           /\ r.accessed_at = now
                           /\ r.access_count = last.row.access_count + 1
    /\ (SaveCompleted /\ Evicted # {}) =>
          /\ Cardinality(table) = MaxCacheSize
          /\ \A v \in Evicted, k \in table : v.accessed_at <= k.accessed_at

\* C11 witness: the save evicted a row stored later than a row that stays,
\* because the older row had been hit since.
C11_HitRowOutlivesNewer ==
    /\ SaveCompleted
    /\ \E v \in Evicted, k \in table :
          /\ k.created_at <= v.created_at
          /\ k.id < v.id
          /\ k.access_count > 1
          /\ v.accessed_at < k.accessed_at

(***************************************************************************)
(* Claims about the engine and a cache that fails (checked under Spec).    *)
(***************************************************************************)
\* ocr is entered on a path and sqlite raises inside get_cached_result.
FaultedLookup ==
    \E input \in Paths, memory \in {"normal", "critical"}, rebuild_ok \in BOOLEAN,
       tfault \in {"none", "fail"}, crops \in CropCounts, cimg \in CropImages :
        OcrBegin(input, ImgNone, memory, rebuild_ok, "db", tfault, crops, cimg)

\* ocr is entered on a path whose file cannot be fingerprinted.
UnreadableLookup ==
    /\ pc \in {"idle", "returned"}
    /\ ncalls' = ncalls + 1
    /\ call'.input \in Paths
    /\ calculate_file_hash(files[call'.input]) = <<>>

\* ocr ends with a result to store and save_result meets the fault.
FaultedSave(fault) == WritesCache(call) /\ OcrReturn(fault)

\* The call returns what its own attempts produced.
ReturnsOwnResult ==
    /\ pc' = "returned"
    /\ ~ret'.raised
    /\ ret'.via # "cache"
    /\ ret'.value = call.result

\* C12: a failure of the cache stays inside the cache.  A lookup that
\* cannot fingerprint the file, or whose database raises, is a miss that
\* leaves the table alone, and the call goes on to its first attempt; a
\* save whose INSERT raises stores nothing; a save whose cleanup pass raises
\* keeps the row it has just committed; in every case ocr returns the
\* result of its attempts and does not raise.
C12_CacheFailureStaysInside ==
    [][ /\ FaultedLookup =>
              /\ pc' = "attempt"
              /\ table' = table
              /\ ret' = NoReturn
              /\ call'.result = <<>>
        /\ UnreadableLookup => (table' = table /\ ret'.via # "cache")
        /\ FaultedSave("db") => (ReturnsOwnResult /\ table' = table)
        /\ FaultedSave("cleanup") =>
              /\ ReturnsOwnResult
              /\ \E r \in table' : r.id = nextId /\ r.created_at = now
      ]_vars

\* C12 witness: a call whose lookup met a database fault on a file the
\* cache held, whose attempts found spans, and whose save met the fault
\* too: the spans are returned and the table holds no row of this call.
C12_RecognizedDespiteFaults ==
    /\ pc = "returned"
    /\ call.cache_fault = "db"
    /\ ret.value # <<>>
    /\ ~ret.raised
    /\ table # {}
    /\ \A r \in table : r.created_at < call.start_time

\* C12 as stated: whenever a database operation of save_result fails,
\* nothing is stored.  The cleanup pass runs after the INSERT is committed.
C12_FailedSaveStoresNothing ==
    [][ \A fault \in {"db", "cleanup"} : FaultedSave(fault) => table' = table ]_vars

(***************************************************************************)
(* Claims about when ocr uses the cache (checked under Spec).              *)
(***************************************************************************)
\* The step commits a new row.
StoresRow == nextId' = nextId + 1 /\ \E r \in table' : r.id = nextId

FixedOrder == DefaultStrategies \o <<"super_aggressive">>

\* C14: in a strategy loop on the whole image the k-th attempt uses the
\* k-th strategy of the ordering standard, enhanced, aggressive,
\* super_aggressive, so that the strategies attempted form a prefix of it.
C14_AttemptsInFixedOrder ==
    (call.att.phase = "strategies" /\ ~call.on_crop) =>
        call.att.strategy = FixedOrder[call.tried]

(***************************************************************************)
(* Claims about the regions of interest (checked under Spec).              *)
(***************************************************************************)
\* C15: a call whose regions gave no accepted span goes on with the
\* strategy loop on the whole input image, with the strategy list a call
\* without regions has on that image.
C15_FallbackOnWholeImage ==
    (call.used_roi /\ call.mode = "strategies") =>
        /\ ~call.on_crop
        /\ CurrentImage(call) = call.img
        /\ call.strategies = StrategyOrder(call.img, DefaultStrategies)

\* The call is in the loop over its regions and starts the attempt on the
\* region it is at.
RegionStart == call.mode = "roi" /\ StartAttempt

\* The invoker of a region returns message m.
RegionAnswer(m) == call.mode = "roi" /\ AwaitResult(m)

\* The invoker of a region times out.
RegionTimeout == call.mode = "roi" /\ AwaitTimeout

\* The loop goes on to the next region, if one is left.
NextRegion ==
    call.idx < call.regions => (pc' = "attempt" /\ call'.idx = call.idx + 1
                                /\ call'.mode = "roi")

\* C16: each region gets one attempt, on its crop, with the standard
\* transform and one worker of the invoker; whatever the attempt ends in,
\* the loop goes on to the next region; an answer appends the spans it
\* holds above the confidence floor to the spans collected so far, an error
\* or a timeout appends nothing; a loop that collected spans returns them.
C16_RegionsConcatenated ==
    [][ /\ RegionStart =>
              /\ call'.att.strategy = "standard"
              /\ call'.att.spawned
              /\ Cardinality(workers') = Cardinality(workers) + 1
              /\ pc' = "waiting"
        /\ \A m \in inbox : RegionAnswer(m) =>
              /\ call'.all_results =
                    call.all_results \o SpansAboveFloor(InvokerValue(m))
              /\ NextRegion
        /\ RegionTimeout =>
              /\ call'.all_results = call.all_results
              /\ NextRegion
        /\ (call.mode = "roi" /\ pc' = "finish") =>
              /\ call'.result = call'.all_results
              /\ call'.result # <<>>
      ]_vars

(***************************************************************************)
(* The gate of the regions of interest on its own: _should_use_roi and     *)
(* _process_with_roi_detection applied to a file name and an image drawn   *)
(* from GateNames and GateImages.  call holds the arguments, ret what the  *)
(* function returned.                                                      *)
(***************************************************************************)
\* difficult_files of _should_use_roi
DifficultFiles == {"2025.06.24.jpg"}

GateNames == {"a.jpg", "2025.06.24.jpg"}

GateSides == {200, 300, 499, 500, 501, 1000, 1001, 1200, 1500, 1501, 3000, 4000}

GateImages ==
    {[w |-> a, h |-> b, difficulty |-> "easy"] : a \in GateSides, b \in GateSides}
    \cup {ImgNone}

\* len(cropped_paths) as crop_text_regions returns it.
DetectedCounts == {0, 1, 2, 7, 8, 15, 16}

\* _should_use_roi on the file of that name holding that image.
should_use_roi_path(name, img) ==
    IF name \in DifficultFiles THEN FALSE ELSE should_use_roi(img)

\* A region test without the time budget: C18 tells it from
\* process_with_roi_detection.
process_with_roi_detection_no_budget(name, img, detected, raises) ==
    IF ~should_use_roi_path(name, img) THEN [paths |-> 1, used_roi |-> FALSE]
    ELSE IF raises THEN [paths |-> 1, used_roi |-> FALSE]
    ELSE IF detected > 1 /\ detected <= RoiMaxRegions
    THEN [paths |-> detected, used_roi |-> TRUE]
    ELSE [paths |-> 1, used_roi |-> FALSE]

\* _process_with_roi_detection: the length of the list of paths returned
\* and the flag returned with it.  raises: crop_text_regions raises.
process_with_roi_detection(name, img, detected, raises) ==
    IF ~should_use_roi_path(name, img) THEN [paths |-> 1, used_roi |-> FALSE]
    ELSE IF raises THEN [paths |-> 1, used_roi |-> FALSE]
    ELSE IF detected > 1 /\ detected <= RoiMaxRegions
    THEN IF detected * RoiSecondsPerRegion <= RoiBudget
         THEN [paths |-> detected, used_roi |-> TRUE]
         ELSE [paths |-> 1, used_roi |-> FALSE]
    ELSE [paths |-> 1, used_roi |-> FALSE]

GateInit ==
    /\ now = 0
    /\ files = [p \in Paths |->
                  [exists |-> TRUE,
                   data |-> [head |-> 0, mid |-> 0, tail |-> 0, size |-> 1],
                   mtime |-> 0]]
    /\ table = {}
    /\ nextId = 1
    /\ nops = 0
    /\ mods = 0
    /\ saved = [p \in Paths |-> NoSave]
    /\ last = NoCall
    /\ picture = [p \in Paths |-> ImgMedium]
    /\ pc = "idle"
    /\ \E name \in GateNames, img \in GateImages :
          call = [input |-> name, img |-> img]
    /\ ncalls = 0
    /\ ret = NoReturn
    /\ workers = {}
    /\ inbox = {}
    /\ tmp_alive = {}
    /\ reader = "ok"
    /\ process_count = 0
    /\ last_cleanup = 0

\* "not self._should_use_roi(image_path)" at the head of
\* _process_with_roi_detection.
ShouldUseRoi ==
    /\ pc = "idle"
    /\ pc' = "gated"
    /\ ret' = [via |-> "should_use_roi",
               value |-> should_use_roi_path(call.input, call.img),
               raised |-> FALSE]
    /\ UNCHANGED <<now, files, table, nextId, nops, mods, saved, last, picture,
                   call, ncalls, workers, inbox, tmp_alive, reader,
                   process_count, last_cleanup>>

\* The rest of _process_with_roi_detection, and the test of ocr on what it
\* returns: "if used_roi and len(roi_paths) > 1".
ProcessWithRoiDetection(detected, raises) ==
    /\ pc = "gated"
    \* crop_text_regions is called only when the gate is open
    /\ ~ret.value => (detected = 0 /\ ~raises)
    /\ pc' = "dispatched"
    /\ LET out == process_with_roi_detection(call.input, call.img, detected, raises)
       IN  /\ ret' = [via |-> "process_with_roi_detection", value |-> out,
                      raised |-> FALSE]
           /\ call' = [input |-> call.input, img |-> call.img,
                       detected |-> detected, raises |-> raises,
                       used_roi |-> out.used_roi,
                       mode |-> IF out.used_roi /\ out.paths > 1
                                THEN "roi" ELSE "strategies"]
    /\ UNCHANGED <<now, files, table, nextId, nops, mods, saved, last, picture,
                   ncalls, workers, inbox, tmp_alive, reader, process_count,
                   last_cleanup>>

GateNext ==
    \/ ShouldUseRoi
    \/ \E detected \in DetectedCounts : ProcessWithRoiDetection(detected, FALSE)
    \/ \E detected \in DetectedCounts : ProcessWithRoiDetection(detected, TRUE)

GateSpec == GateInit /\ [][GateNext]_vars

(***************************************************************************)
(* Claims about the gate (checked under GateSpec).                         *)
(***************************************************************************)
Pixels(img) == img.w * img.h

\* C17: the gate is false for a file name on the exemption list and for
\* an image that cannot be read; otherwise it is false below 250,000
\* pixels, true above 1,000,000 pixels, and in between true exactly when
\* the longer side is more than 3 times the shorter one.
C17_GateFromSize ==
    pc = "gated" =>
        LET img == call.img
            gate == ret.value
        IN  IF call.input \in DifficultFiles \/ ~Readable(img) THEN ~gate
            ELSE IF Pixels(img) < 250000 THEN ~gate
            ELSE IF Pixels(img) > 1000000 THEN gate
            ELSE gate <=> (Max(img.w, img.h) > 3 * Min(img.w, img.h))

\* C17 witness: the gate has opened for an elongated image of middle size.
C17_ElongatedPasses ==
    /\ pc = "gated"
    /\ ret.value = TRUE
    /\ Pixels(call.img) >= 250000
    /\ Pixels(call.img) <= 1000000

\* C18: the regions are processed one by one exactly when the gate is
\* open, the detection did not fail and the number n of crops has
\* 2 <= n <= 15 and 8 * n <= 60; in every other case the one path handed on
\* is the whole image, which goes to the strategy loop.
C18_RegionsOnlyWithinBudget ==
    pc = "dispatched" =>
        LET n == call.detected
            gate == should_use_roi_path(call.input, call.img)
            within == /\ gate
                      /\ ~call.raises
                      /\ 2 <= n
                      /\ n <= 15
                      /\ 8 * n <= 60
        IN  /\ call.mode = (IF within THEN "roi" ELSE "strategies")
            /\ call.used_roi = within
            /\ ret.value.paths = (IF within THEN n ELSE 1)
            /\ (call.input \notin DifficultFiles /\ ~call.raises) =>
                  (within <=> RoiAccepted(call.img, n))

\* C18 witness: the gate was open and the detector cut 8 regions, within
\* the largest number of regions and beyond the budget: the whole image is
\* processed.
C18_OverBudgetWholeImage ==
    /\ pc = "dispatched"
    /\ should_use_roi_path(call.input, call.img)
    /\ ~call.raises
    /\ call.detected = 8
    /\ call.mode = "strategies"

(***************************************************************************)
(* SmartROIDetector._filter_and_merge_regions on its own.  A region is     *)
(* the tuple <<x, y, w, h>>; call holds the arguments, ret the list        *)
(* returned.                                                               *)
(***************************************************************************)
MaxRegions == 3

\* image_shape: (height, width)
ImageShape == <<60, 60>>

CandidateRegions ==
    { <<0, 0, 20, 20>>, <<5, 30, 20, 20>>, <<6, 0, 20, 50>>, <<10, 0, 20, 20>>,
      <<9, 0, 20, 20>>, <<45, 45, 20, 20>>, <<50, 50, 20, 20>>,
      <<0 - 5, 0, 30, 30>> }

RegionLists == UNION {[1..n -> CandidateRegions] : n \in 0..MaxRegions}

\* "x = max(0, min(x, width - 1)) ... w = min(w, width - x)"
ClipRegion(r, shape) ==
    LET x == Max(0, Min(r[1], shape[2] - 1))
        y == Max(0, Min(r[2], shape[1] - 1))
    IN  <<x, y, Min(r[3], shape[2] - x), Min(r[4], shape[1] - y)>>

\* "if w > 10 and h > 10"
MinRegionSide == 10

LargeEnough(r) == r[3] > MinRegionSide /\ r[4] > MinRegionSide

\* unique_regions
UniqueRegions(regions, shape) ==
    SelectSeq([i \in DOMAIN regions |-> ClipRegion(regions[i], shape)],
              LargeEnough)

\* sorted(unique_regions, key=lambda r: r[0]): a stable sort.
RECURSIVE InsertByX(_, _)
InsertByX(sorted, r) ==
    IF sorted = <<>> THEN <<r>>
    ELSE IF sorted[Len(sorted)][1] <= r[1] THEN Append(sorted, r)
    ELSE Append(InsertByX(SubSeq(sorted, 1, Len(sorted) - 1), r),
                sorted[Len(sorted)])

RECURSIVE SortedByX(_)
SortedByX(regions) ==
    IF regions = <<>> THEN <<>>
    ELSE InsertByX(SortedByX(SubSeq(regions, 1, Len(regions) - 1)),
                   regions[Len(regions)])

\* _regions_overlap: overlap_area > min_area * 0.5
regions_overlap(r1, r2) ==
    LET overlap_x == Max(0, Min(r1[1] + r1[3], r2[1] + r2[3]) - Max(r1[1], r2[1]))
        overlap_y == Max(0, Min(r1[2] + r1[4], r2[2] + r2[4]) - Max(r1[2], r2[2]))
        overlap_area == overlap_x * overlap_y
        min_area == Min(r1[3] * r1[4], r2[3] * r2[4])
    IN  2 * overlap_area > min_area

\* A merge that keeps the region already in the list and drops the other:
\* C37 tells it from merge_regions.
merge_regions_keeps_last(r1, r2) == r2

\* _merge_regions: the bounding box of the two.
merge_regions(r1, r2) ==
    LET min_x == Min(r1[1], r2[1])
        min_y == Min(r1[2], r2[2])
        max_x == Max(r1[1] + r1[3], r2[1] + r2[3])
        max_y == Max(r1[2] + r1[4], r2[2] + r2[4])
    IN  <<min_x, min_y, max_x - min_x, max_y - min_y>>

\* The loop over sorted_regions: each region is compared with the last
\* region of merged_regions only.
RECURSIVE MergePass(_, _)
MergePass(merged, rest) ==
    IF rest = <<>> THEN merged
    ELSE LET region == Head(rest)
         IN  IF merged = <<>> THEN MergePass(<<region>>, Tail(rest))
             ELSE LET last_region == merged[Len(merged)]
                  IN  IF regions_overlap(region, last_region)
                      THEN MergePass(
                               [merged EXCEPT ![Len(merged)] =
                                   merge_regions(region, last_region)],
                               Tail(rest))
                      ELSE MergePass(Append(merged, region), Tail(rest))

filter_and_merge_regions(regions, shape) ==
    IF regions = <<>> THEN <<>>
    ELSE IF UniqueRegions(regions, shape) = <<>> THEN <<>>
    ELSE MergePass(<<>>, SortedByX(UniqueRegions(regions, shape)))

MergeInit ==
    /\ now = 0
    /\ files = [p \in Paths |->
                  [exists |-> TRUE,
                   data |-> [head |-> 0, mid |-> 0, tail |-> 0, size |-> 1],
                   mtime |-> 0]]
    /\ table = {}
    /\ nextId = 1
    /\ nops = 0
    /\ mods = 0
    /\ saved = [p \in Paths |-> NoSave]
    /\ last = NoCall
    /\ picture = [p \in Paths |-> ImgMedium]
    /\ pc = "idle"
    /\ \E regions \in RegionLists :
          call = [regions |-> regions, image_shape |-> ImageShape]
    /\ ncalls = 0
    /\ ret = NoReturn
    /\ workers = {}
    /\ inbox = {}
    /\ tmp_alive = {}
    /\ reader = "ok"
    /\ process_count = 0
    /\ last_cleanup = 0

\* detect_text_regions hands the regions of its detectors to
\* _filter_and_merge_regions.
FilterAndMerge ==
    /\ pc = "idle"
    /\ pc' = "merged"
    /\ ret' = [via |-> "filter_and_merge_regions",
               value |-> filter_and_merge_regions(call.regions, call.image_shape),
               raised |-> FALSE]
    /\ UNCHANGED <<now, files, table, nextId, nops, mods, saved, last, picture,
                   call, ncalls, workers, inbox, tmp_alive, reader,
                   process_count, last_cleanup>>

\* The list returned is handed to _filter_and_merge_regions again, with
\* the same image shape.
MergeAgain ==
    /\ pc = "merged"
    /\ pc' = "remerged"
    /\ call' = [call EXCEPT !.regions = ret.value]
    /\ ret' = [via |-> "filter_and_merge_regions",
               value |-> filter_and_merge_regions(ret.value, call.image_shape),
               raised |-> FALSE]
    /\ UNCHANGED <<now, files, table, nextId, nops, mods, saved, last, picture,
                   ncalls, workers, inbox, tmp_alive, reader, process_count,
                   last_cleanup>>

MergeNext == FilterAndMerge \/ MergeAgain

MergeSpec == MergeInit /\ [][MergeNext]_vars

(***************************************************************************)
(* Claims about the merging of regions (checked under MergeSpec).          *)
(***************************************************************************)
\* C19: the list returned by _filter_and_merge_regions holds no two
\* regions whose overlap is more than half the area of the smaller one.
C19_NoOverlapAfterMerge ==
    pc = "merged" =>
        \A i, j \in DOMAIN ret.value :
            i < j => ~regions_overlap(ret.value[i], ret.value[j])

\* C20: _filter_and_merge_regions applied to a list it has returned, with
\* the same image shape, returns that list.
C20_MergeIdempotent ==
    pc = "remerged" => ret.value = call.regions

(***************************************************************************)
(* The cache manager called from several threads on one file.  Each call   *)
(* opens its own connection; a statement that writes runs, with its        *)
(* commit, as one step (sqlite lets one connection write at a time), and   *)
(* the SELECT of a lookup is a step of its own: the sqlite3 module opens   *)
(* no transaction for a SELECT, so other connections can commit between    *)
(* the SELECT of a lookup and the DELETE or UPDATE that follows it.        *)
(* call[t] is the position and the local variables of thread t.            *)
(***************************************************************************)
MaxThreads == 3

Threads == 1..MaxThreads

RacePath == "a.jpg"

RacePayloads == {r \in Payloads : r.ser}

Idle == [op |-> "none", at |-> "idle"]

\* A row stored before the threads start: none, one still within the
\* expiry window, one beyond it.
RaceStartAges == {0, ExpirySeconds + 1}

RaceInit ==
    /\ files = [p \in Paths |->
                  [exists |-> TRUE,
                   data |-> [head |-> IF p = "a.jpg" THEN 0 ELSE 1,
                             mid |-> 0, tail |-> 0, size |-> 1],
                   mtime |-> 0]]
    /\ \E age \in RaceStartAges, held \in BOOLEAN, result \in RacePayloads :
          /\ now = age
          /\ table = IF held
                     THEN {NewRow(1, files[RacePath], json_dumps(result).text,
                                  0, "traditional", 0)}
                     ELSE {}
          /\ saved = [p \in Paths |->
                        IF held /\ p = RacePath
                        THEN [id |-> 1, file |-> files[p], result |-> result,
                              elapsed |-> 0, strategy |-> "traditional", at |-> 0]
                        ELSE NoSave]
          /\ nextId = IF held THEN 2 ELSE 1
    /\ nops = 0
    /\ mods = 0
    /\ last = NoCall
    /\ picture = [p \in Paths |-> ImgMedium]
    /\ pc = "idle"
    /\ call = [t \in Threads |-> Idle]
    /\ ncalls = 0
    /\ ret = NoReturn
    /\ workers = {}
    /\ inbox = {}
    /\ tmp_alive = {}
    /\ reader = "ok"
    /\ process_count = 0
    /\ last_cleanup = 0

RaceFrame ==
    UNCHANGED <<now, files, nops, mods, last, picture, pc, ncalls, ret,
                workers, inbox, tmp_alive, reader, process_count, last_cleanup>>

\* save_result up to the connection: the fingerprint, os.stat, json.dumps.
SaveEnter(t, result) ==
    /\ call[t].at = "idle"
    /\ call' = [call EXCEPT ![t] = [op |-> "save", at |-> "insert",
                                    result |-> result]]
    /\ UNCHANGED <<table, nextId, saved>>
    /\ RaceFrame

\* INSERT OR REPLACE and conn.commit().
SaveInsert(t) ==
    /\ call[t].at = "insert"
    /\ table' = Upsert(table, NewRow(nextId, files[RacePath],
                                     json_dumps(call[t].result).text,
                                     0, "traditional", now))
    /\ saved' = [saved EXCEPT ![RacePath] =
                   [id |-> nextId, file |-> files[RacePath],
                    result |-> call[t].result, elapsed |-> 0,
                    strategy |-> "traditional", at |-> now]]
    /\ nextId' = nextId + 1
    /\ call' = [call EXCEPT ![t].at = "cleanup"]
    /\ RaceFrame

\* The database stays locked by other connections beyond the busy timeout:
\* the INSERT raises, save_result prints and returns.
SaveLocked(t) ==
    /\ call[t].at = "insert"
    /\ \E u \in Threads \ {t} : call[u].at \notin {"idle", "done"}
    /\ call' = [call EXCEPT ![t].at = "done"]
    /\ UNCHANGED <<table, nextId, saved>>
    /\ RaceFrame

\* self._cleanup_cache()
SaveCleanup(t) ==
    /\ call[t].at = "cleanup"
    /\ table' \in cleanup_cache(table, now, "none")
    /\ call' = [call EXCEPT ![t].at = "done"]
    /\ UNCHANGED <<nextId, saved>>
    /\ RaceFrame

\* get_cached_result up to the connection.
GetEnter(t) ==
    /\ call[t].at = "idle"
    /\ call' = [call EXCEPT ![t] = [op |-> "get", at |-> "select"]]
    /\ UNCHANGED <<table, nextId, saved>>
    /\ RaceFrame

\* The SELECT and cursor.fetchone().
GetSelect(t) ==
    /\ call[t].at = "select"
    /\ LET rows == LookupRows(table, files[RacePath])
       IN  call' = [call EXCEPT ![t] =
                      IF rows = {}
                      THEN [op |-> "get", at |-> "done", res |-> Miss]
                      ELSE [op |-> "get", at |-> "write",
                            row |-> CHOOSE r \in rows : TRUE]]
    /\ UNCHANGED <<table, nextId, saved>>
    /\ RaceFrame

\* What follows the SELECT of a row: the DELETE of an expired row, or the
\* UPDATE of the access stamp; both name the row by file_hash alone.
GetWrite(t) ==
    /\ call[t].at = "write"
    /\ LET row == call[t].row
           h == row.file_hash
       IN  IF now - row.created_at > ExpirySeconds
           THEN /\ table' = {r \in table : r.file_hash # h}
                /\ call' = [call EXCEPT ![t] =
                              [op |-> "get", at |-> "done", res |-> Miss]]
           ELSE /\ table' = {IF r.file_hash = h
                             THEN [r EXCEPT !.accessed_at = now,
                                            !.access_count = r.access_count + 1]
                             ELSE r : r \in table}
                /\ call' = [call EXCEPT ![t] =
                              [op |-> "get", at |-> "done",
                               res |-> [hit |-> TRUE,
                                        ocr_results |-> json_loads(row.ocr_results),
                                        processing_time |-> row.processing_time,
                                        strategy_used |-> row.strategy_used,
                                        from_cache |-> TRUE]]]
    /\ UNCHANGED <<nextId, saved>>
    /\ RaceFrame

RaceNext ==
    \E t \in Threads :
        \/ \E result \in RacePayloads : SaveEnter(t, result)
        \/ SaveInsert(t)
        \/ SaveLocked(t)
        \/ SaveCleanup(t)
        \/ GetEnter(t)
        \/ GetSelect(t)
        \/ GetWrite(t)

RaceSpec == RaceInit /\ [][RaceNext]_vars

(***************************************************************************)
(* Claims about concurrent calls of the cache (checked under RaceSpec).    *)
(***************************************************************************)
AllDone == \A t \in Threads : call[t].at = "done"

\* C21: at every moment the table holds at most one row per fingerprint;
\* and once every call has finished, if a store was committed during the
\* calls, the table holds the row of the store that committed last, with
\* the payload of that store.
C21_LastWriterWins ==
    /\ \A r1, r2 \in table : r1.file_hash = r2.file_hash => r1 = r2
    /\ (AllDone /\ saved[RacePath].id # 0 /\ saved[RacePath].id >= 2
          /\ saved[RacePath].at = now) =>
          \E r \in table :
              /\ r.id = saved[RacePath].id
              /\ r.ocr_results = json_dumps(saved[RacePath].result).text

(***************************************************************************)
(* Claims about the timeouts of the strategy attempts (checked under       *)
(* Spec).                                                                  *)
(***************************************************************************)
\* The step starts the next attempt of the strategy loop the call is in, on
\* the whole image.
NextStrategyAttempt ==
    /\ call.att.phase = "strategies" /\ call'.att.phase = "strategies"
    /\ ~call.on_crop /\ ~call'.on_crop
    /\ call.tried >= 1 /\ call'.tried = call.tried + 1

\* C22: within one call the timeout of a strategy attempt is at least the
\* timeout of the attempt before it (t for standard, floor(1.2 t) for
\* enhanced, floor(1.5 t) for aggressive and super_aggressive), so the
\* timeouts never decrease along the order the strategies are tried in.
C22_TimeoutsNonDecreasing ==
    [][NextStrategyAttempt => call'.att.timeout >= call.att.timeout]_vars

\* C22 (the multipliers alone): every strategy attempt on the whole image
\* has the timeout its strategy gives, and no strategy gets less than the
\* base timeout.
C22_TimeoutOfStrategy ==
    (call.att.phase = "strategies" /\ ~call.on_crop) =>
        /\ call.att.timeout = StrategyTimeout(call.att.strategy, call.timeout_seconds)
        /\ call.att.timeout >= call.timeout_seconds

(***************************************************************************)
(* Claims about what an attempt leaves behind (checked under Spec).        *)
(***************************************************************************)
\* What the engine holds of a call: the state of the call without the
\* model's own note of how the attempt ended (self.stats has no counter of
\* timeouts or errors, and _execute_ocr_with_timeout returns None for both).
Recorded(c) == [c EXCEPT !.att = [@ EXCEPT !.outcome = "none", !.from = <<>>]]

\* The call as _execute_ocr_with_timeout and its loop leave it when the
\* worker put ('error', message) on the queue.
AfterBackendError(c) ==
    Advance(Closed(c, "error", <<>>, RespEmpty), <<>>).call

\* C23: a backend timeout is recorded distinctly from a backend error: what
\* the engine holds after an attempt that timed out differs from what it
\* holds after the same attempt with the backend raising.
C23_TimeoutToldFromError ==
    [][AwaitTimeout => Recorded(call') # Recorded(AfterBackendError(call))]_vars

\* C23 (the loop): after an attempt of the strategy loop that timed out or
\* raised, the loop is at its next strategy, or it is over.
C23_LoopAdvances ==
    [][(/\ call.mode = "strategies"
        /\ \/ AwaitTimeout
           \/ \E m \in inbox : m.status = "error" /\ AwaitResult(m))
          => \/ pc' = "finish"
             \/ pc' = "attempt" /\ call'.idx = call.idx + 1]_vars

(***************************************************************************)
(* Claims about the spans of an answer (checked under Spec).               *)
(***************************************************************************)
\* C24: _format_results accepts a backend answer as a list of
\* (polygon, (text, confidence)) and as a record of parallel arrays alike:
\* the spans an attempt gets from an answer are the spans of the answer
\* above the floor whatever its shape, and in the strategy loop an answer
\* with such a span ends the loop with these spans.
C24_BothShapesAccepted ==
    [][\A m \in inbox : (m.status = "success" /\ AwaitResult(m)) =>
          /\ call'.att.spans = SpansAboveFloor(m.results)
          /\ (call.mode = "strategies" /\ SpansAboveFloor(m.results) # <<>>) =>
                /\ pc' = "finish"
                /\ call'.result = SpansAboveFloor(m.results)]_vars

\* The call returns what it has just recognized, regions or whole image.
FreshOutcome == pc = "returned" /\ ret.via \in {"roi", "traditional"}

\* C25: every span of an outcome the call has just produced, from the
\* regions or from the whole image, has a confidence strictly above the
\* floor of 0.2 and a text that is not empty; and an answer whose spans are
\* all at or below the floor gives its attempt no span: in the strategy
\* loop the strategy has failed, the loop goes on or ends with nothing.
C25_SpansAboveFloor ==
    /\ [](FreshOutcome =>
            \A i \in DOMAIN ret.value :
                ret.value[i].conf > ConfFloor /\ ret.value[i].text # "")
    /\ [][\A m \in inbox :
            ( /\ m.status = "success" /\ AwaitResult(m)
              /\ m.results.spans # <<>>
              /\ \A i \in DOMAIN m.results.spans :
                    m.results.spans[i].conf <= ConfFloor )
            => /\ call'.att.spans = <<>>
               /\ call'.all_results = call.all_results
               /\ call.mode = "strategies" =>
                     \/ pc' = "attempt" /\ call'.idx = call.idx + 1
                     \/ pc' = "finish" /\ call'.result = <<>>]_vars

\* C25 witness: a call returned the one span its answer held above the
\* floor; the span at the floor and the blank span of that answer are not
\* in the outcome.
C25_FloorSpanLeftOut ==
    /\ FreshOutcome
    /\ call.att.outcome = "result"
    /\ Len(ret.value) = 1 /\ ret.value = call.att.spans
    /\ ret.value[1].conf > SpanFloor.conf

(***************************************************************************)
(* SmartImageProcessor.auto_resize on its own: the decoded image of a file *)
(* goes in, the image the returned path holds comes out.                   *)
(***************************************************************************)
ResizeSides == {1, 100, 200, 299, 300, 640, 1279, 1280, 1281, 2000, 4000}

ResizeImages ==
    {[w |-> w, h |-> h, difficulty |-> "easy"] : w \in ResizeSides, h \in ResizeSides}
    \cup {ImgNone}

\* scale is max_size over the longer side of an oversized image, otherwise
\* min_size over the shorter side; int(width * scale), int(height * scale).
\* cv2.resize raises on an empty size, and the except branch returns the
\* path as it came.
auto_resize(img) ==
    IF ~auto_resize_writes(img) THEN [img |-> img, is_temp |-> FALSE]
    ELSE LET shrink == img.w > MaxSize \/ img.h > MaxSize
             num == IF shrink THEN MaxSize ELSE MinSize
             den == IF shrink THEN Max(img.w, img.h) ELSE Min(img.w, img.h)
             new_width == (img.w * num) \div den
             new_height == (img.h * num) \div den
         IN  IF new_width = 0 \/ new_height = 0
             THEN [img |-> img, is_temp |-> FALSE]
             ELSE [img |-> [img EXCEPT !.w = new_width, !.h = new_height],
                   is_temp |-> TRUE]

ResizeInit ==
    /\ now = 0
    /\ files = [p \in Paths |->
                  [exists |-> TRUE,
                   data |-> [head |-> 0, mid |-> 0, tail |-> 0, size |-> 1],
                   mtime |-> 0]]
    /\ table = {}
    /\ nextId = 1
    /\ nops = 0
    /\ mods = 0
    /\ saved = [p \in Paths |-> NoSave]
    /\ last = NoCall
    /\ \E img \in ResizeImages :
          /\ picture = [p \in Paths |-> img]
          /\ call = [input |-> "a.jpg", img |-> img]
    /\ pc = "idle"
    /\ ncalls = 0
    /\ ret = NoReturn
    /\ workers = {}
    /\ inbox = {}
    /\ tmp_alive = {}
    /\ reader = "ok"
    /\ process_count = 0
    /\ last_cleanup = 0

AutoResize ==
    /\ pc = "idle"
    /\ pc' = "resized"
    /\ LET out == auto_resize(call.img)
       IN  /\ ret' = [via |-> "auto_resize", value |-> out, raised |-> FALSE]
           /\ tmp_alive' = IF out.is_temp THEN {[kind |-> "resized", n |-> 1]}
                           ELSE {}
    /\ UNCHANGED <<now, files, table, nextId, nops, mods, saved, last, picture,
                   call, ncalls, workers, inbox, reader, process_count,
                   last_cleanup>>

ResizeNext == AutoResize

ResizeSpec == ResizeInit /\ [][ResizeNext]_vars

\* C26: auto_resize never enlarges: the width and the height of its output
\* are at most the input's and at most 1280, an image within 1280 on both
\* sides comes back unchanged, and the sides keep their ratio up to the
\* truncation to whole pixels.
C26_NeverEnlarges ==
    (pc = "resized" /\ Readable(call.img)) =>
        LET in == call.img
            out == ret.value.img
        IN  /\ out.w <= in.w /\ out.h <= in.h
            /\ out.w <= MaxSize /\ out.h <= MaxSize
            /\ (in.w <= MaxSize /\ in.h <= MaxSize) =>
                  (out = in /\ ~ret.value.is_temp)
            /\ out.w * in.h < (out.h + 1) * in.w
            /\ out.h * in.w < (out.w + 1) * in.h

\* C26 (oversized images alone): an image with a side above 1280 is scaled
\* down, to at most 1280 on both sides, with the ratio of its sides kept up
\* to the truncation.
C26_OversizedScaledDown ==
    (pc = "resized" /\ (call.img.w > MaxSize \/ call.img.h > MaxSize)) =>
        LET in == call.img
            out == ret.value.img
        IN  \/ ~ret.value.is_temp /\ out = in
            \/ /\ out.w <= in.w /\ out.h <= in.h
               /\ out.w <= MaxSize /\ out.h <= MaxSize
               /\ out.w * in.h < (out.h + 1) * in.w
               /\ out.h * in.w < (out.w + 1) * in.h

(***************************************************************************)
(* CacheManager._calculate_file_hash on its own, on two files.             *)
(***************************************************************************)
HashContents == [head : Bytes, mid : Bytes, tail : Bytes, size : FileSizes]

HashInit ==
    /\ now = 0
    /\ \E da, db \in HashContents :
          files = [p \in Paths |->
                     [exists |-> TRUE, data |-> IF p = "a.jpg" THEN da ELSE db,
                      mtime |-> 0]]
    /\ table = {}
    /\ nextId = 1
    /\ nops = 0
    /\ mods = 0
    /\ saved = [p \in Paths |-> NoSave]
    /\ last = NoCall
    /\ picture = [p \in Paths |-> ImgMedium]
    /\ pc = "idle"
    /\ call = [p \in Paths |-> <<>>]
    /\ ncalls = 0
    /\ ret = NoReturn
    /\ workers = {}
    /\ inbox = {}
    /\ tmp_alive = {}
    /\ reader = "ok"
    /\ process_count = 0
    /\ last_cleanup = 0

\* The first fingerprint taken of the file at p; call keeps it.
CalculateFileHash(p) ==
    /\ call[p] = <<>>
    /\ call' = [call EXCEPT ![p] = calculate_file_hash(files[p])]
    /\ ret' = [via |-> "calculate_file_hash", value |-> call'[p], raised |-> FALSE]
    /\ UNCHANGED <<now, files, table, nextId, nops, mods, saved, last, picture,
                   pc, ncalls, workers, inbox, tmp_alive, reader,
                   process_count, last_cleanup>>

\* The fingerprint of the same file taken once more.
CalculateFileHashAgain(p) ==
    /\ call[p] # <<>>
    /\ pc = "idle"
    /\ pc' = p
    /\ ret' = [via |-> "calculate_file_hash", value |-> calculate_file_hash(files[p]),
               raised |-> FALSE]
    /\ UNCHANGED <<now, files, table, nextId, nops, mods, saved, last, picture,
                   call, ncalls, workers, inbox, tmp_alive, reader,
                   process_count, last_cleanup>>

HashNext ==
    \E p \in Paths : CalculateFileHash(p) \/ CalculateFileHashAgain(p)

HashSpec == HashInit /\ [][HashNext]_vars

\* Two contents of one size that differ in one byte: in the first 8 KB, in
\* the last 8 KB, or between them.
DifferInOneByte(d1, d2) ==
    /\ d1.size = d2.size
    /\ Cardinality({k \in {"head", "mid", "tail"} : d1[k] # d2[k]}) = 1

\* C27: the fingerprint is a function of the content alone (taken again of
\* the same file it is the same), and two contents of the same size that
\* differ in a single byte have different fingerprints, below the 10 MB
\* threshold and above it.
C27_OneByteChangesFingerprint ==
    /\ pc \in Paths => ret.value = call[pc]
    /\ ( /\ call["a.jpg"] # <<>> /\ call["b.jpg"] # <<>>
         /\ DifferInOneByte(files["a.jpg"].data, files["b.jpg"].data) )
       => call["a.jpg"] # call["b.jpg"]

\* C27 (files up to the threshold): below the threshold a single byte
\* changes the fingerprint.
C27_SmallFilesToldApart ==
    ( /\ call["a.jpg"] # <<>> /\ call["b.jpg"] # <<>>
      /\ DifferInOneByte(files["a.jpg"].data, files["b.jpg"].data)
      /\ files["a.jpg"].data.size <= HashThreshold )
    => call["a.jpg"] # call["b.jpg"]

(***************************************************************************)
(* The resource guard on its own: the head of ocr (the counter, the        *)
(* inspection, the forced cleanup) call after call.  The clock of this     *)
(* specification counts half minutes.                                      *)
(***************************************************************************)
MaxGuardTime == 3

HalfMinute == 60 \div 2

\* What psutil reports: "normal", "high" (above 1000 MB), "critical" (above
\* 1200 MB).
MemoryLevels == {"normal", "high", "critical"}

\* A guard whose _force_cleanup runs on the finding of the inspection only:
\* C40 tells it from ResourceGuard.
ResourceGuard_by_memory_only(rd, count, elapsed, memory, rebuild_ok) ==
    LET inspected == MemoryCheckDue(count, elapsed)
        forced == inspected /\ memory = "critical"
    IN  [count |-> count, elapsed |-> elapsed, memory |-> memory,
         rebuild_ok |-> rebuild_ok,
         inspected |-> inspected,
         forced |-> forced,
         discarded |-> forced /\ rd # "none",
         swept |-> forced \/ (inspected /\ memory = "high"),
         rebuilt |-> forced /\ rebuild_ok]

\* What the guard of one call does.  forced: _force_cleanup runs, from the
\* inspection or from the counter; it drops the instance it finds, runs
\* gc.collect() and constructs PaddleOCR again.
ResourceGuard(rd, count, elapsed, memory, rebuild_ok) ==
    LET inspected == MemoryCheckDue(count, elapsed)
        forced == \/ inspected /\ memory = "critical"
                  \/ count > ForceCleanupCount
    IN  [count |-> count, elapsed |-> elapsed, memory |-> memory,
         rebuild_ok |-> rebuild_ok,
         inspected |-> inspected,
         forced |-> forced,
         discarded |-> forced /\ rd # "none",
         swept |-> forced \/ (inspected /\ memory = "high"),
         rebuilt |-> forced /\ rebuild_ok]

GuardInit ==
    /\ now = 0
    /\ files = [p \in Paths |->
                  [exists |-> TRUE,
                   data |-> [head |-> 0, mid |-> 0, tail |-> 0, size |-> 1],
                   mtime |-> 0]]
    /\ table = {}
    /\ nextId = 1
    /\ nops = 0
    /\ mods = 0
    /\ saved = [p \in Paths |-> NoSave]
    /\ last = NoCall
    /\ picture = [p \in Paths |-> ImgMedium]
    /\ pc = "idle"
    /\ call = ResourceGuard("ok", 0, 0, "normal", TRUE)
    /\ ncalls = 0
    /\ ret = NoReturn
    /\ workers = {}
    /\ inbox = {}
    /\ tmp_alive = {}
    /\ reader = "ok"
    /\ process_count = 0
    /\ last_cleanup = 0

\* Half a minute passes between two calls.
GuardTick ==
    /\ now < MaxGuardTime
    /\ now' = now + 1
    /\ pc' = "idle"
    /\ UNCHANGED <<files, table, nextId, nops, mods, saved, last, picture,
                   call, ncalls, ret, workers, inbox, tmp_alive, reader,
                   process_count, last_cleanup>>

\* The head of one call of ocr, up to "if isinstance(image, str)".
OcrGuard(memory, rebuild_ok) ==
    LET count == process_count + 1
        elapsed == (now - last_cleanup) * HalfMinute
        done == ResourceGuard(reader, count, elapsed, memory, rebuild_ok)
    IN  /\ done.forced \/ rebuild_ok
        /\ done.inspected \/ memory = "normal"
        /\ call' = done
        /\ reader' = GuardedReader(reader, count, elapsed, memory, rebuild_ok)
        /\ last_cleanup' = IF done.inspected THEN now ELSE last_cleanup
        /\ process_count' = IF count > ForceCleanupCount THEN 0 ELSE count
        /\ pc' = "guarded"
        /\ UNCHANGED <<now, files, table, nextId, nops, mods, saved, last,
                       picture, ncalls, ret, workers, inbox, tmp_alive>>

GuardNext ==
    \/ GuardTick
    \/ \E memory \in MemoryLevels, rebuild_ok \in BOOLEAN :
          OcrGuard(memory, rebuild_ok)

ResourceGuardSpec == GuardInit /\ [][GuardNext]_vars

GuardMayRebuild ==
    /\ ncalls' = ncalls + 1
    /\ pc \in {"idle", "returned"}
    /\ \/ (process_count + 1) % 10 = 0
       \/ SecondsSince(now, last_cleanup) > 60
       \/ process_count + 1 > 100

\* C29: self.reader is changed by the reconstruction of the resource guard
\* only: the cache lookup and store, the detection of regions, the
\* transforms, the invocation of the backend with its timeouts and errors
\* and the formatting of its answers leave it as it is.
C29_ReaderOnlyByGuard ==
    [][reader' # reader => GuardMayRebuild]_vars

\* C29 witness: the guard of the second call left no backend instance, and
\* the call has gone through its attempts and returned with the reader as
\* the guard left it.
C29_ReaderKeptThroughCall ==
    /\ reader = "none"
    /\ pc = "returned" /\ ncalls = 2
    /\ call.tried > 0

(***************************************************************************)
(* BatchProcessor.process_files with its thread pool.  call holds the      *)
(* batch: what each file does when it is recognized, the files that passed *)
(* validation, the futures not yet started and the results collected;      *)
(* workers are the tasks running in the pool, inbox the futures that are   *)
(* done and not yet collected.                                             *)
(***************************************************************************)
MaxWorkers == 2

BatchPaths == {"a.jpg", "b.jpg", "c.jpg"}

\* What a file does: it fails validation, its date is recognized, its
\* recognition returns without a date, raises, or does not return before
\* the batch timeout.
FileKinds == {"invalid", "good", "fails", "raises", "hangs"}

\* _process_single_file: a ProcessingResult whatever recognize_single does.
process_single_file(path, kind) ==
    [file_path |-> path, success |-> kind \in {"good", "hangs"}]

\* The BatchResult of process_files from the results collected.
batch_result(total_files, results) ==
    [total_files |-> total_files,
     total_processed |-> Len(results),
     successful_recognitions |-> Len(SelectSeq(results, LAMBDA r : r.success)),
     failed_recognitions |-> Len(SelectSeq(results, LAMBDA r : ~r.success))]

BatchInit ==
    /\ now = 0
    /\ files = [p \in Paths |->
                  [exists |-> TRUE,
                   data |-> [head |-> 0, mid |-> 0, tail |-> 0, size |-> 1],
                   mtime |-> 0]]
    /\ table = {}
    /\ nextId = 1
    /\ nops = 0
    /\ mods = 0
    /\ saved = [p \in Paths |-> NoSave]
    /\ last = NoCall
    /\ picture = [p \in Paths |-> ImgMedium]
    /\ pc = "idle"
    /\ \E kind \in [BatchPaths -> FileKinds] :
          call = [kind |-> kind, valid |-> {}, pending |-> {},
                  submitted |-> {}, results |-> <<>>]
    /\ ncalls = 0
    /\ ret = NoReturn
    /\ workers = {}
    /\ inbox = {}
    /\ tmp_alive = {}
    /\ reader = "ok"
    /\ process_count = 0
    /\ last_cleanup = 0

BatchFrame ==
    UNCHANGED <<now, files, table, nextId, nops, mods, saved, last, picture,
                ncalls, tmp_alive, reader, process_count, last_cleanup>>

\* process_files up to the loop of _process_parallel: the validation, and
\* one future submitted per valid file.
ProcessFiles ==
    /\ pc = "idle"
    /\ LET valid == {p \in BatchPaths : call.kind[p] # "invalid"}
       IN  IF valid = {}
           THEN /\ pc' = "returned"
                /\ ret' = [via |-> "process_files",
                           value |-> batch_result(Cardinality(BatchPaths), <<>>),
                           raised |-> FALSE]
                /\ call' = call
           ELSE /\ pc' = "collect"
                /\ call' = [call EXCEPT !.valid = valid, !.pending = valid,
                                        !.submitted = valid]
                /\ ret' = ret
    /\ UNCHANGED <<workers, inbox>>
    /\ BatchFrame

\* A thread of the pool takes the next future.
TaskStart(p) ==
    /\ pc \in {"collect", "shutdown"}
    /\ p \in call.pending
    /\ Cardinality(workers) < MaxWorkers
    /\ workers' = workers \cup {p}
    /\ call' = [call EXCEPT !.pending = @ \ {p}]
    /\ UNCHANGED <<pc, ret, inbox>>
    /\ BatchFrame

\* _process_single_file returns; a file that hangs returns, if ever, after
\* the batch timeout.
TaskFinish(p) ==
    /\ p \in workers
    /\ call.kind[p] = "hangs" => pc = "shutdown"
    /\ workers' = workers \ {p}
    /\ inbox' = inbox \cup {process_single_file(p, call.kind[p])}
    /\ UNCHANGED <<pc, call, ret>>
    /\ BatchFrame

\* as_completed yields a future that is done; after the last one the pool
\* is left and process_files counts the results.
Collect(m) ==
    /\ pc = "collect"
    /\ m \in inbox
    /\ inbox' = inbox \ {m}
    /\ LET results == Append(call.results, m)
       IN  /\ call' = [call EXCEPT !.results = results]
           /\ IF Len(results) = Cardinality(call.valid)
              THEN /\ pc' = "returned"
                   /\ ret' = [via |-> "process_files",
                              value |-> batch_result(Cardinality(BatchPaths), results),
                              raised |-> FALSE]
              ELSE UNCHANGED <<pc, ret>>
    /\ UNCHANGED workers
    /\ BatchFrame

\* batch_timeout passes with a future not done: as_completed raises
\* TimeoutError in the for statement, outside the try of the loop body, and
\* the with block is left: shutdown(wait=True).
BatchTimeout ==
    /\ pc = "collect"
    /\ inbox = {}
    /\ \E p \in workers : call.kind[p] = "hangs"
    /\ pc' = "shutdown"
    /\ UNCHANGED <<call, ret, workers, inbox>>
    /\ BatchFrame

\* The pool has run every future to its end; the TimeoutError reaches the
\* handler of process_files, which raises BatchProcessingError.
ShutdownDone ==
    /\ pc = "shutdown"
    /\ workers = {} /\ call.pending = {}
    /\ pc' = "raised"
    /\ ret' = [via |-> "process_files", value |-> <<>>, raised |-> TRUE]
    /\ UNCHANGED <<call, workers, inbox>>
    /\ BatchFrame

BatchNext ==
    \/ ProcessFiles
    \/ \E p \in BatchPaths : TaskStart(p) \/ TaskFinish(p)
    \/ \E m \in inbox : Collect(m)
    \/ BatchTimeout
    \/ ShutdownDone

BatchSpec == BatchInit /\ [][BatchNext]_vars

\* Every file of the batch that passed validation has exactly one result.
OneResultPerValidFile(results) ==
    /\ Len(results) = Cardinality(call.valid)
    /\ \A p \in call.valid :
          Cardinality({i \in DOMAIN results : results[i].file_path = p}) = 1

\* C30: every file that passes validation yields exactly one
\* ProcessingResult, so that total_processed = successful_recognitions +
\* failed_recognitions = the number of valid files; a file whose
\* recognition fails, raises or hangs does not abort the batch or keep the
\* other files from their results; and a file that fails validation is
\* never submitted.
C30_OneResultPerValidFile ==
    /\ pc \notin {"shutdown", "raised"}
    /\ call.submitted \subseteq {p \in BatchPaths : call.kind[p] # "invalid"}
    /\ (pc = "returned" /\ call.valid # {}) =>
          /\ ~ret.raised
          /\ OneResultPerValidFile(call.results)
          /\ ret.value.total_processed = Cardinality(call.valid)
          /\ ret.value.total_processed =
                ret.value.successful_recognitions + ret.value.failed_recognitions

\* C30 (no file hangs): with every recognition returning before the batch
\* timeout, the batch returns one result per valid file, whatever fails or
\* raises.
C30_WithoutHang ==
    (\A p \in BatchPaths : call.kind[p] # "hangs") =>
        /\ pc \notin {"shutdown", "raised"}
        /\ call.submitted \subseteq {p \in BatchPaths : call.kind[p] # "invalid"}
        /\ (pc = "returned" /\ call.valid # {}) =>
              /\ ~ret.raised
              /\ OneResultPerValidFile(call.results)
              /\ ret.value.total_processed = Cardinality(call.valid)
              /\ ret.value.total_processed =
                    ret.value.successful_recognitions
                    + ret.value.failed_recognitions

(***************************************************************************)
(* TaskQueue of the batch processor on its own.  inbox is self.queue, a    *)
(* heap of (-priority, task_id, task); ncalls is self.task_counter; last   *)
(* keeps what was pending when get_task was called and ret what it         *)
(* returned.                                                               *)
(***************************************************************************)
MaxTasks == 4

Priorities == {0, 1, 2}

\* "self.queue.put((-priority, task_id, task))"; task_id is
\* f"task_{self.task_counter:06d}", ordered as its number.
QueueEntry(counter, priority) ==
    <<0 - priority, counter, [task_id |-> counter, priority |-> priority]>>

\* The order of the heap on its tuples.
EntryBefore(e1, e2) ==
    \/ e1[1] < e2[1]
    \/ e1[1] = e2[1] /\ e1[2] < e2[2]

\* The entry PriorityQueue.get takes.
QueueHead(q) == CHOOSE e \in q : \A o \in q \ {e} : EntryBefore(e, o)

QueueInit ==
    /\ now = 0
    /\ files = [p \in Paths |->
                  [exists |-> TRUE,
                   data |-> [head |-> 0, mid |-> 0, tail |-> 0, size |-> 1],
                   mtime |-> 0]]
    /\ table = {}
    /\ nextId = 1
    /\ nops = 0
    /\ mods = 0
    /\ saved = [p \in Paths |-> NoSave]
    /\ last = NoCall
    /\ picture = [p \in Paths |-> ImgMedium]
    /\ pc = "idle"
    /\ call = <<>>
    /\ ncalls = 0
    /\ ret = NoReturn
    /\ workers = {}
    /\ inbox = {}
    /\ tmp_alive = {}
    /\ reader = "ok"
    /\ process_count = 0
    /\ last_cleanup = 0

QueueFrame ==
    UNCHANGED <<now, files, table, nextId, nops, mods, saved, picture, pc,
                call, workers, tmp_alive, reader, process_count, last_cleanup>>

AddTask(priority) ==
    /\ ncalls < MaxTasks
    /\ ncalls' = ncalls + 1
    /\ inbox' = inbox \cup {QueueEntry(ncalls + 1, priority)}
    /\ last' = [op |-> "add_task"]
    /\ ret' = [via |-> "add_task", value |-> ncalls + 1, raised |-> FALSE]
    /\ QueueFrame

\* get_task with tasks pending.
GetTask ==
    /\ inbox # {}
    /\ inbox' = inbox \ {QueueHead(inbox)}
    /\ last' = [op |-> "get_task", pending |-> {e[3] : e \in inbox}]
    /\ ret' = [via |-> "get_task", value |-> QueueHead(inbox)[3], raised |-> FALSE]
    /\ UNCHANGED ncalls
    /\ QueueFrame

\* get_task on an empty queue: queue.Empty, None is returned.
GetTaskEmpty ==
    /\ inbox = {}
    /\ last.op # "get_task"
    /\ last' = [op |-> "get_task", pending |-> {}]
    /\ ret' = [via |-> "get_task", value |-> <<>>, raised |-> FALSE]
    /\ UNCHANGED <<ncalls, inbox>>
    /\ QueueFrame

QueueNext ==
    \/ \E priority \in Priorities : AddTask(priority)
    \/ GetTask
    \/ GetTaskEmpty

QueueSpec == QueueInit /\ [][QueueNext]_vars

\* C31: get_task returns the pending tasks in the order of their priority,
\* a numerically smaller priority value first, and among tasks of equal
\* priority in the order of their creation.
C31_SmallerPriorityFirst ==
    (last.op = "get_task" /\ last.pending # {}) =>
        \A t \in last.pending :
            \/ ret.value.priority < t.priority
            \/ /\ ret.value.priority = t.priority
               /\ ret.value.task_id <= t.task_id

\* C31 (equal priorities): of the pending tasks that have the priority of
\* the task returned, the task returned is the one created first.
C31_EqualPriorityInCreationOrder ==
    (last.op = "get_task" /\ last.pending # {}) =>
        /\ ret.value \in last.pending
        /\ \A t \in last.pending :
              t.priority = ret.value.priority => ret.value.task_id <= t.task_id

(***************************************************************************)
(* Claims about what a lookup writes (checked under CacheSpec).            *)
(***************************************************************************)
\* The step is a call of get_cached_result.
LookupStep == last'.op = "get" /\ nops' = nops + 1

\* C32: a hit changes, of the whole table, the accessed_at of the entry it
\* returns, to the time of the lookup, and its access_count, by one, and
\* has done so when it returns; the payload, created_at and strategy of that
\* entry and every other entry stay as they were; a lookup that finds no
\* matching row changes no entry.
C32_HitTouchesOnlyItsRow ==
    [][LookupStep =>
          /\ last'.res.hit =>
                \E r \in table :
                    /\ r = last'.row
                    /\ r \in LookupRows(table, files[last'.path])
                    /\ table' = (table \ {r}) \cup
                                  {[r EXCEPT !.accessed_at = now,
                                             !.access_count = r.access_count + 1]}
          /\ LookupRows(table, files[last'.path]) = {} =>
                /\ ~last'.res.hit
                /\ table' = table]_vars

\* C32 witness: a hit later than the creation of its entry, with another
\* entry in the table: the entry returned carries the time of the lookup and
\* one access more.
C32_HitStampsItsRow ==
    /\ last.op = "get" /\ last.res.hit
    /\ Cardinality(table) = 2
    /\ \E r \in table :
          /\ r.id = last.row.id
          /\ r.accessed_at = now /\ now > last.row.accessed_at
          /\ r.access_count = last.row.access_count + 1
          /\ r.created_at = last.row.created_at

(***************************************************************************)
(* Claims about a transform that fails (checked under Spec).               *)
(***************************************************************************)
\* The step starts an attempt whose transform raises, on an image that can
\* be read.
FailedTransformStep ==
    /\ pc = "attempt"
    /\ call.transform_fault = "fail"
    /\ Readable(CurrentImage(call))
    /\ call'.ntmp = call.ntmp + 1

DeletedRows == {r \in table : \A r2 \in table' : r2.id # r.id}

\* C34: whatever a store of the same file does between the SELECT of a
\* lookup and what the lookup writes, the lookup deletes only an entry that
\* is itself older than the expiry window; an entry within the window, such
\* as the one a save_result has just written, is never deleted by it.
C34_LookupDeletesOnlyExpired ==
    [][\A t \in Threads :
          (call[t].at = "write" /\ call'[t].at = "done") =>
              \A r \in DeletedRows : now - r.created_at > ExpirySeconds]_vars

(***************************************************************************)
(* Claims about the number of backend invocations of one call.             *)
(***************************************************************************)
\* The thread that runs ocr keeps running: it starts the next attempt, it
\* returns from result_queue.get(timeout=...) by the deadline, and it
\* reaches its return statement.
TerminationSpec ==
    /\ Spec
    /\ WF_vars(StartAttempt)
    /\ WF_vars(InvokerReturns)
    /\ WF_vars(\E sfault \in Faults : OcrReturn(sfault))

\* The most invocations a call at c may have made: one per region of an
\* accepted region list, and one per strategy of the list of its strategy
\* loop.
InvocationBound(c) ==
    (IF c.used_roi THEN c.regions ELSE 0)
    + (IF c.mode = "strategies" THEN Len(c.strategies) ELSE 0)

\* C35: a call makes at most one backend invocation per accepted region (at
\* most 15) and one per strategy of its strategy list (at most 4), each
\* invocation starting one worker, and it returns, also when no worker ever
\* answers.
C35_BoundedInvocations ==
    /\ [](/\ call.ntmp <= InvocationBound(call)
          /\ call.regions <= RoiMaxRegions
          /\ Len(call.strategies) <= Len(FixedOrder))
    /\ [][workers' \ workers # {} =>
            /\ Cardinality(workers' \ workers) = 1
            /\ StartAttempt
            /\ call'.ntmp = call.ntmp + 1]_vars
    /\ (pc \in {"attempt", "waiting", "finish"}) ~> (pc = "returned")

\* C35 witness: every region of an accepted list and every strategy of the
\* fallback list was tried, the last invocation timed out, and the call is
\* at its return.
C35_AllTriedAndTimedOut ==
    /\ pc = "finish"
    /\ call.used_roi
    /\ call.mode = "strategies"
    /\ call.ntmp = call.regions + Len(call.strategies)
    /\ call.att.outcome = "timeout"
    /\ call.result = <<>>

(***************************************************************************)
(* Claims about the row a store has just written (checked under EvictSpec).*)
(***************************************************************************)
\* A step that is a call of save_result which committed its INSERT.
StoringStep == last'.op = "save" /\ nops' = nops + 1 /\ last'.stored

\* Every row of the table was written or hit at an earlier reading of the
\* clock than the present one.
ClockStrictlyLater == \A r \in table : r.accessed_at < now

\* C36: with a capacity of at least one row and a window of at least a day,
\* when the clock reads later than at every earlier operation, the row a
\* save_result writes is in the table when the call returns, whatever rows
\* the table held: the cleanup pass of the call does not delete it.
C36_StoredRowSurvivesCleanup ==
    [][(StoringStep /\ ClockStrictlyLater /\ MaxCacheSize >= 1
        /\ MaxCacheDays >= 1) =>
          \E r \in table' : /\ r.id = nextId
                            /\ r.created_at = now
                            /\ r.accessed_at = now
                            /\ r.file_hash = calculate_file_hash(files[last'.path])
      ]_vars

\* C36 witness: a save on a full table at a later reading of the clock than
\* every row's; its cleanup pass deleted an unexpired row and the row just
\* written stays.
C36_FullTableKeepsNewRow ==
    /\ SaveCompleted
    /\ Evicted # {}
    /\ \A v \in Evicted : v.accessed_at < now
    /\ \E r \in table : /\ r.id = saved[last.path].id
                        /\ r.created_at = now
                        /\ \A k \in table \ {r} : k.accessed_at < now

(***************************************************************************)
(* Claims about what merging keeps (checked under MergeSpec).              *)
(***************************************************************************)
\* Rectangle inner lies inside rectangle outer.
RegionInside(inner, outer) ==
    /\ outer[1] <= inner[1]
    /\ outer[2] <= inner[2]
    /\ inner[1] + inner[3] <= outer[1] + outer[3]
    /\ inner[2] + inner[4] <= outer[2] + outer[4]

\* The rectangle of the whole image of shape (height, width).
WholeImage(shape) == <<0, 0, shape[2], shape[1]>>

\* C37: every input rectangle that is wider and higher than 10 after
\* clipping lies inside some rectangle of the list that
\* _filter_and_merge_regions returns, and every returned rectangle lies
\* inside the image.
C37_MergeLosesNoCandidate ==
    pc = "merged" =>
        LET unique == UniqueRegions(call.regions, call.image_shape)
        IN  /\ \A i \in DOMAIN unique :
                  \E j \in DOMAIN ret.value : RegionInside(unique[i], ret.value[j])
            /\ \A j \in DOMAIN ret.value :
                  RegionInside(ret.value[j], WholeImage(call.image_shape))

\* C37 witness: a rectangle that reached beyond the image was clipped and
\* kept, and a kept rectangle was merged into a larger one of the list
\* returned.
C37_ClippedAndMerged ==
    /\ pc = "merged"
    /\ \E i \in DOMAIN call.regions :
          /\ ~RegionInside(call.regions[i], WholeImage(call.image_shape))
          /\ LargeEnough(ClipRegion(call.regions[i], call.image_shape))
    /\ LET unique == UniqueRegions(call.regions, call.image_shape)
       IN  \E i \in DOMAIN unique :
              /\ \A j \in DOMAIN ret.value : ret.value[j] # unique[i]
              /\ \E j \in DOMAIN ret.value : RegionInside(unique[i], ret.value[j])

(***************************************************************************)
(* BatchProcessor.is_processing: process_files and stop_processing called  *)
(* on one BatchProcessor from several threads.  call[t] is where thread t  *)
(* is and how its last process_files ended; ret holds is_processing;       *)
(* ncalls counts the calls made.  Each step below is one critical section  *)
(* of processing_lock.                                                     *)
(***************************************************************************)
MaxBatchCalls == 5

NotCalling == [at |-> "idle", outcome |-> "none"]

ProcessingInit ==
    /\ now = 0
    /\ files = [p \in Paths |->
                  [exists |-> TRUE,
                   data |-> [head |-> 0, mid |-> 0, tail |-> 0, size |-> 1],
                   mtime |-> 0]]
    /\ table = {}
    /\ nextId = 1
    /\ nops = 0
    /\ mods = 0
    /\ saved = [p \in Paths |-> NoSave]
    /\ last = NoCall
    /\ picture = [p \in Paths |-> ImgMedium]
    /\ pc = "idle"
    /\ call = [t \in Threads |-> NotCalling]
    /\ ncalls = 0
    /\ ret = [is_processing |-> FALSE]
    /\ workers = {}
    /\ inbox = {}
    /\ tmp_alive = {}
    /\ reader = "ok"
    /\ process_count = 0
    /\ last_cleanup = 0

ProcessingFrame ==
    UNCHANGED <<now, files, table, nextId, nops, mods, saved, picture, pc,
                workers, inbox, tmp_alive, reader, process_count, last_cleanup>>

\* "with self.processing_lock: if self.is_processing: raise ...;
\* self.is_processing = True".  The raise is before the try statement, so
\* the finally block is not run by a call that is turned away.
ProcessFilesEnter(t) ==
    /\ call[t].at = "idle"
    /\ ncalls < MaxBatchCalls
    /\ ncalls' = ncalls + 1
    /\ IF ret.is_processing
       THEN /\ call' = [call EXCEPT ![t] = [at |-> "idle", outcome |-> "rejected"]]
            /\ ret' = ret
       ELSE /\ call' = [call EXCEPT ![t] = [at |-> "running", outcome |-> "none"]]
            /\ ret' = [is_processing |-> TRUE]
    /\ last' = [op |-> "process_files", thread |-> t]
    /\ ProcessingFrame

\* The try block ends, by a return or by an exception wrapped into
\* BatchProcessingError, and the finally block clears the flag.
ProcessFilesExit(t, outcome) ==
    /\ call[t].at = "running"
    /\ call' = [call EXCEPT ![t] = [at |-> "idle", outcome |-> outcome]]
    /\ ret' = [is_processing |-> FALSE]
    /\ last' = [op |-> "exit", thread |-> t]
    /\ UNCHANGED ncalls
    /\ ProcessingFrame

\* stop_processing: "with self.processing_lock: self.is_processing = False"
StopProcessing(t) ==
    /\ call[t].at = "idle"
    /\ ncalls < MaxBatchCalls
    /\ ncalls' = ncalls + 1
    /\ ret' = [is_processing |-> FALSE]
    /\ last' = [op |-> "stop_processing", thread |-> t]
    /\ UNCHANGED call
    /\ ProcessingFrame

ProcessingNext ==
    \E t \in Threads :
        \/ ProcessFilesEnter(t)
        \/ \E outcome \in {"returned", "raised"} : ProcessFilesExit(t, outcome)
        \/ StopProcessing(t)

ProcessingSpec == ProcessingInit /\ [][ProcessingNext]_vars

(***************************************************************************)
(* Claims about is_processing (checked under ProcessingSpec).              *)
(***************************************************************************)
\* The threads that are inside the try block of process_files.
RunsInProgress == {t \in Threads : call[t].at = "running"}

\* C38: whatever the order of the process_files and stop_processing calls
\* of several threads, at most one run of process_files is in progress.
C38_AtMostOneRun == Cardinality(RunsInProgress) <= 1

\* The rest of C38: a call that is turned away leaves is_processing as it
\* was, and is_processing is false right after a run has left its finally
\* block.
C38_FlagAtEntryAndExit ==
    [][/\ (\E t \in Threads : call'[t].outcome = "rejected"
                              /\ call'[t] # call[t]) => ret' = ret
       /\ (\E t \in Threads : call[t].at = "running" /\ call'[t].at = "idle")
             => ~ret'.is_processing]_vars

(***************************************************************************)
(* BatchProcessor._process_single_file and the in-memory result cache,     *)
(* run by the worker threads of one BatchProcessor.  inbox is result_cache *)
(* (a dict: its entries in insertion order); call[t] is where thread t is  *)
(* in _process_single_file; ret[t] is the ProcessingResult its last call   *)
(* returned; ncalls counts the calls.  Each step is one critical section   *)
(* of cache_lock, or the recognition between two of them.                  *)
(***************************************************************************)
MaxResultCache == 1    \* performance.cache_size, default 1000
MaxSingleCalls == 4

None == [kind |-> "None"]

RecognitionResult(success) == [kind |-> "RecognitionResult", success |-> success]

ProcessingResult(file_path, result, success) ==
    [file_path |-> file_path, result |-> result, success |-> success]

\* "file_path in self.result_cache"
InCache(cache, file_path) == \E i \in DOMAIN cache : cache[i].key = file_path

\* self.result_cache.get(file_path)
CacheGetOrNone(cache, file_path) ==
    IF InCache(cache, file_path)
    THEN (CHOOSE e \in {cache[i] : i \in DOMAIN cache} : e.key = file_path).value
    ELSE None

\* _save_to_cache: the oldest entry goes when the dict is full, then the
\* assignment, which keeps the place of a key the dict holds.
save_to_cache(cache, file_path, result) ==
    LET room == IF Len(cache) >= MaxResultCache THEN Tail(cache) ELSE cache
    IN  IF InCache(room, file_path)
        THEN [i \in DOMAIN room |->
                IF room[i].key = file_path
                THEN [key |-> file_path, value |-> result] ELSE room[i]]
        ELSE Append(room, [key |-> file_path, value |-> result])

NoSingleCall == [at |-> "idle", path |-> "", recognition |-> None]

ResultCacheInit ==
    /\ now = 0
    /\ files = [p \in Paths |->
                  [exists |-> TRUE,
                   data |-> [head |-> 0, mid |-> 0, tail |-> 0, size |-> 1],
                   mtime |-> 0]]
    /\ table = {}
    /\ nextId = 1
    /\ nops = 0
    /\ mods = 0
    /\ saved = [p \in Paths |-> NoSave]
    /\ last = NoCall
    /\ picture = [p \in Paths |-> ImgMedium]
    /\ pc = "idle"
    /\ call = [t \in Threads |-> NoSingleCall]
    /\ ncalls = 0
    /\ ret = [t \in Threads |-> ProcessingResult("", None, FALSE)]
    /\ workers = {}
    /\ inbox = <<>>
    /\ tmp_alive = {}
    /\ reader = "ok"
    /\ process_count = 0
    /\ last_cleanup = 0

ResultCacheFrame ==
    UNCHANGED <<now, files, table, nextId, nops, mods, saved, last, picture,
                pc, workers, tmp_alive, reader, process_count, last_cleanup>>

\* "if self.cache_enabled and self._check_cache(file_path)"
CheckCache(t, file_path) ==
    /\ call[t].at = "idle"
    /\ ncalls < MaxSingleCalls
    /\ ncalls' = ncalls + 1
    /\ call' = [call EXCEPT ![t] =
                  [at |-> IF InCache(inbox, file_path) THEN "hit" ELSE "miss",
                   path |-> file_path, recognition |-> None]]
    /\ UNCHANGED <<inbox, ret>>
    /\ ResultCacheFrame

\* "cached_result = self._get_from_cache(file_path)" and the return of the
\* cached result with success=True.
GetFromCache(t) ==
    /\ call[t].at = "hit"
    /\ ret' = [ret EXCEPT ![t] =
                 ProcessingResult(call[t].path,
                                  CacheGetOrNone(inbox, call[t].path), TRUE)]
    /\ call' = [call EXCEPT ![t] = NoSingleCall]
    /\ UNCHANGED <<inbox, ncalls>>
    /\ ResultCacheFrame

\* recognize_single returns a RecognitionResult, or raises and the except
\* clause returns the failed ProcessingResult.
RecognizeSingle(t, outcome) ==
    /\ call[t].at = "miss"
    /\ IF outcome = "raises"
       THEN /\ ret' = [ret EXCEPT ![t] =
                         ProcessingResult(call[t].path, None, FALSE)]
            /\ call' = [call EXCEPT ![t] = NoSingleCall]
       ELSE /\ ret' = ret
            /\ call' = [call EXCEPT ![t] =
                          [@ EXCEPT !.at = "recognized",
                                    !.recognition =
                                        RecognitionResult(outcome = "good")]]
    /\ UNCHANGED <<inbox, ncalls>>
    /\ ResultCacheFrame

\* "self._save_to_cache(file_path, recognition_result)" and the return.
SaveToCache(t) ==
    /\ call[t].at = "recognized"
    /\ inbox' = save_to_cache(inbox, call[t].path, call[t].recognition)
    /\ ret' = [ret EXCEPT ![t] =
                 ProcessingResult(call[t].path, call[t].recognition,
                                  call[t].recognition.success)]
    /\ call' = [call EXCEPT ![t] = NoSingleCall]
    /\ UNCHANGED ncalls
    /\ ResultCacheFrame

\* clear_cache
ClearCache ==
    /\ inbox # <<>>
    /\ inbox' = <<>>
    /\ UNCHANGED <<call, ncalls, ret>>
    /\ ResultCacheFrame

ResultCacheNext ==
    \/ \E t \in Threads, p \in Paths : CheckCache(t, p)
    \/ \E t \in Threads : GetFromCache(t)
    \/ \E t \in Threads, outcome \in {"good", "failed", "raises"} :
          RecognizeSingle(t, outcome)
    \/ \E t \in Threads : SaveToCache(t)
    \/ ClearCache

ResultCacheSpec == ResultCacheInit /\ [][ResultCacheNext]_vars

(***************************************************************************)
(* Claims about the results of _process_single_file (checked under         *)
(* ResultCacheSpec).                                                       *)
(***************************************************************************)
\* C39: a ProcessingResult that _process_single_file returns with
\* success = True holds a RecognitionResult, not None, whose own success
\* flag is True.
C39_SuccessHoldsGoodResult ==
    \A t \in Threads :
        ret[t].success =>
            /\ ret[t].result.kind = "RecognitionResult"
            /\ ret[t].result.success

\* What is left of C39: a ProcessingResult that was not served from the
\* cache has the success flag of its RecognitionResult.
C39_FreshResultKeepsFlag ==
    [][\A t \in Threads :
          (call[t].at = "recognized" /\ call'[t].at = "idle") =>
              /\ ret'[t].result.kind = "RecognitionResult"
              /\ ret'[t].success = ret'[t].result.success]_vars

============================================================================
